---- MODULE Spec2Model ----
(***************************************************************************)
(* Patient dashboard: the REST controller over the "patients" collection   *)
(* (backend/src/controllers/patient.controller.ts) and the page that lists *)
(* and edits the patients in the browser (frontend/src/pages/              *)
(* PatientPage.tsx with its table, dialog, modals and form).               *)
(*                                                                         *)
(* JavaScript values are modelled as follows.  An object is a record that  *)
(* holds exactly the properties that are present; reading a property that  *)
(* is not there gives `undefined`.  A string is written as a TLA+ string   *)
(* and handed to Utf16 wherever the code looks inside it (toLowerCase,     *)
(* includes, <, template literals, parseInt, new Date), so that these      *)
(* operations are computed on UTF-16 code units as the runtime does.       *)
(***************************************************************************)
EXTENDS Integers, Sequences, FiniteSets, TLC

\* Size of the identifier space the store hands out document ids from.
MaxPatients == 3

-----------------------------------------------------------------------------
(* JavaScript values *)

undefined == "(undefined)"

\* o[k] on a JavaScript object
Get(o, k) == IF k \in DOMAIN o THEN o[k] ELSE undefined

\* !v for a string-or-undefined value
Falsy(v) == v = undefined \/ v = ""

\* v || d
OrElse(v, d) == IF Falsy(v) THEN d ELSE v

\* The UTF-16 code units of the string literals that occur in the model.
Utf16(s) ==
  CASE s = "" -> <<>>
    [] s = "Bob" -> <<66, 111, 98>>
    [] s = "Ng" -> <<78, 103>>
    [] s = "Amy" -> <<65, 109, 121>>
    [] s = "Lee" -> <<76, 101, 101>>
    [] s = "Ann" -> <<65, 110, 110>>
    [] s = "amy" -> <<97, 109, 121>>
    [] s = "lee" -> <<108, 101, 101>>
    [] s = "1980-01-01" -> <<49, 57, 56, 48, 45, 48, 49, 45, 48, 49>>
    [] s = "1990-05-05" -> <<49, 57, 57, 48, 45, 48, 53, 45, 48, 53>>
    [] s = "Inquiry" -> <<73, 110, 113, 117, 105, 114, 121>>
    [] s = "Onboarding" -> <<79, 110, 98, 111, 97, 114, 100, 105, 110, 103>>
    [] s = "Active" -> <<65, 99, 116, 105, 118, 101>>
    [] s = "Churned" -> <<67, 104, 117, 114, 110, 101, 100>>
    [] s = "active" -> <<97, 99, 116, 105, 118, 101>>
    [] s = "1 Elm St" -> <<49, 32, 69, 108, 109, 32, 83, 116>>
    [] s = "Troy" -> <<84, 114, 111, 121>>
    [] s = "Avon" -> <<65, 118, 111, 110>>
    [] s = "NY" -> <<78, 89>>
    [] s = "12180" -> <<49, 50, 49, 56, 48>>
    [] s = "ACTIVE" -> <<65, 67, 84, 73, 86, 69>>
    [] s = "an" -> <<97, 110>>
    [] s = "12" -> <<49, 50>>
    [] s = "0" -> <<48>>
    [] s = "-1" -> <<45, 49>>
    [] s = "1" -> <<49>>
    [] s = "2" -> <<50>>
    [] s = "3" -> <<51>>
    [] s = "4" -> <<52>>
    [] s = "5" -> <<53>>
    [] s = "6" -> <<54>>
    [] s = "7" -> <<55>>
    [] s = "8" -> <<56>>
    [] s = "10" -> <<49, 48>>
    [] s = "20" -> <<50, 48>>
    [] s = "50" -> <<53, 48>>
    [] s = "100" -> <<49, 48, 48>>
    [] s = "101" -> <<49, 48, 49>>
    [] s = "abc" -> <<97, 98, 99>>
    [] s = " " -> <<32>>
    [] s = " Bob" -> <<32, 66, 111, 98>>
    [] s = "Ng " -> <<78, 103, 32>>
    [] s = " 1 Elm St" -> <<32, 49, 32, 69, 108, 109, 32, 83, 116>>
    [] s = "Troy " -> <<84, 114, 111, 121, 32>>
    [] s = "NY " -> <<78, 89, 32>>
    [] s = "B" -> <<66>>
    [] s = "1218" -> <<49, 50, 49, 56>>
    [] s = "1900-01-01" -> <<49, 57, 48, 48, 45, 48, 49, 45, 48, 49>>
    [] s = "2026-01-01" -> <<50, 48, 50, 54, 45, 48, 49, 45, 48, 49>>
    [] s = "undefined" -> <<117, 110, 100, 101, 102, 105, 110, 101, 100>>

\* `${v}` inside a template literal: undefined is spelled out.
Text(v) == IF v = undefined THEN Utf16("undefined") ELSE Utf16(v)

Space == <<32>>

\* String.prototype.toLowerCase on code units (A-Z only occur)
LowerUnit(c) == IF c >= 65 /\ c <= 90 THEN c + 32 ELSE c

toLowerCase(u) == [i \in 1..Len(u) |-> LowerUnit(u[i])]

\* String.prototype.includes: t occurs in u as a contiguous run
includes(u, t) ==
  \E i \in 0..(Len(u) - Len(t)) : SubSeq(u, i + 1, i + Len(t)) = t

\* u < t for two strings: lexicographic on code units
RECURSIVE StrLess(_, _)
StrLess(u, t) ==
  IF t = <<>> THEN FALSE
  ELSE IF u = <<>> THEN TRUE
  ELSE IF Head(u) # Head(t) THEN Head(u) < Head(t)
  ELSE StrLess(Tail(u), Tail(t))

IsDigit(c) == c >= 48 /\ c <= 57

\* The value of the longest run of decimal digits u starts with, after acc.
RECURSIVE DigitsValue(_, _)
DigitsValue(u, acc) ==
  IF u = <<>> \/ ~IsDigit(Head(u)) THEN acc
  ELSE DigitsValue(Tail(u), 10 * acc + (Head(u) - 48))

NaN == [isNaN |-> TRUE, value |-> 0]

Num(n) == [isNaN |-> FALSE, value |-> n]

\* parseInt(v): optional sign, then decimal digits; NaN when there is none
\* (so also for undefined, which is first turned into the text "undefined").
parseInt(v) ==
  LET u == Text(v)
      neg == u # <<>> /\ Head(u) = 45
      d == IF u # <<>> /\ Head(u) \in {43, 45} THEN Tail(u) ELSE u
  IN  IF d = <<>> \/ ~IsDigit(Head(d)) THEN NaN
      ELSE Num(IF neg THEN 0 - DigitsValue(d, 0) ELSE DigitsValue(d, 0))

\* n || d for a number: NaN and 0 are falsy
NumOrElse(n, d) == IF n.isNaN \/ n.value = 0 THEN d ELSE n.value

\* Days from 1970-01-01 to the civil date y-m-d (proleptic Gregorian).
DaysFromCivil(y, m, d) ==
  LET yy == IF m <= 2 THEN y - 1 ELSE y
      era == yy \div 400
      yoe == yy - era * 400
      mp == (m + 9) % 12
      doy == (153 * mp + 2) \div 5 + d - 1
      doe == yoe * 365 + yoe \div 4 - yoe \div 100 + doy
  IN  era * 146097 + doe - 719468

\* new Date(s).getTime() for a date-only ISO string YYYY-MM-DD, which the
\* runtime reads as UTC midnight.  The unit here is the day (86400000 ms),
\* which keeps the order and the equality of time values.
getTime(s) ==
  LET u == Utf16(s)
  IN  DaysFromCivil(DigitsValue(SubSeq(u, 1, 4), 0),
                    DigitsValue(SubSeq(u, 6, 7), 0),
                    DigitsValue(SubSeq(u, 9, 10), 0))

-----------------------------------------------------------------------------
(* Requests *)

\* Document ids the store can assign.  getDocs returns the documents of a
\* collection in ascending id order; an auto-generated id is arbitrary, so a
\* new document may land anywhere in that order.
Ids == 1..MaxPatients

\* An object with the one property k, or the empty object when v is undefined.
Prop(k, v) == IF v = undefined THEN <<>> ELSE (k :> v)

Patient(first, middle, last, dob, status, city) ==
  Prop("firstName", first) @@ Prop("middleName", middle) @@
  Prop("lastName", last) @@ Prop("dob", dob) @@ Prop("status", status) @@
  Prop("address", "1 Elm St") @@ Prop("city", city) @@
  Prop("state", "NY") @@ Prop("zipCode", "12180")

\* Bob Ng: no middleName property.
BobNg == Patient("Bob", undefined, "Ng", "1980-01-01", "Active", "Troy")

\* Amy Lee: the middleName left empty, as the form sends it.
AmyLee == Patient("Amy", "", "Lee", "1990-05-05", "Inquiry", "Avon")

\* amy Ann lee: typed in lower case, and without a city, which createPatient
\* does not ask for.
amyAnnlee == Patient("amy", "Ann", "lee", "1990-05-05", "Active", undefined)

\* Request bodies that pass createPatient's checks ...
GoodBodies == {BobNg, AmyLee, amyAnnlee}

\* ... and bodies that do not: a required field missing or empty, or a
\* status outside the enumeration.
BadBodies ==
  { Patient(undefined, undefined, "Ng", "1980-01-01", "Active", "Troy"),
    Patient("Bob", undefined, "", "1980-01-01", "Active", "Troy"),
    Patient("Bob", undefined, "Ng", undefined, "Active", "Troy"),
    Patient("Bob", undefined, "Ng", "1980-01-01", undefined, "Troy"),
    Patient("Bob", undefined, "Ng", "1980-01-01", "active", "Troy") }

Bodies == GoodBodies \cup BadBodies

SearchTerms == {undefined, "ACTIVE", "an", "12"}

SortFields == {undefined, "name", "dob", "status", "location"}

Query(page, limit, sortBy, sortOrder, search) ==
  Prop("page", page) @@ Prop("limit", limit) @@ Prop("sortBy", sortBy) @@
  Prop("sortOrder", sortOrder) @@ Prop("search", search)

\* Query strings of GET /patients: every search, sort field and direction
\* with the small pages that split MaxPatients records, and the boundary
\* values of page and limit on an otherwise default query.
Queries ==
  { Query(p, l, sb, so, se) :
      p \in {"1", "2", "3"}, l \in {"1", "2"}, sb \in SortFields,
      so \in {"asc", "desc"}, se \in SearchTerms }
  \cup
  { Query(p, l, undefined, undefined, undefined) :
      p \in {undefined, "abc", "0", "-1", "2"},
      l \in {undefined, "abc", "0", "-1", "100", "101"} }

-----------------------------------------------------------------------------
(* State *)

\* The backend
VARIABLES
  store,     \* the "patients" collection: document id -> document data
  deleted,   \* the document ids deleteDoc has deleted
  available, \* Firestore serves the calls; when it does not, each rejects
  calls,     \* the invocations of getAllPatients that are at their await
  req,       \* the request being handled, NoRequest between two exchanges
  res        \* the response the handler has sent to req

\* The page PatientList in the browser (pages/PatientPage.tsx)
VARIABLES
  currentPage,       \* useState(1)
  itemsPerPage,      \* useState(10)
  sortField,         \* useState('')
  sortDirection,     \* useState('asc')
  listQuery,         \* the useQuery of the current queryKey
  cache,             \* the queries of the keys that were left: key -> query
  showAddModal,      \* useState(false)
  editingPatient,    \* useState(null)
  showDeleteDialog,  \* useState(false)
  patientToDelete,   \* useState(null)
  deletingPatientId, \* useState(null)
  deleteCall,        \* the api.delete handleDeleteConfirm is awaiting
  formCall,          \* the api.post / api.put onSubmit is awaiting
  timers,            \* setTimeout callbacks that have not run yet
  toast              \* the notification shown last

serverVars == <<store, deleted, available, calls, req, res>>

tableVars == <<currentPage, itemsPerPage, sortField, sortDirection, listQuery>>

dialogVars ==
  <<showAddModal, editingPatient, showDeleteDialog, patientToDelete,
    deletingPatientId, deleteCall, formCall, timers, toast>>

clientVars == <<tableVars, cache, dialogVars>>

vars == <<serverVars, clientVars>>

\* null, in a variable that otherwise holds an object
null == [null |-> TRUE]

\* null, in a variable that otherwise holds a document id
NoId == 0

NoRequest == [method |-> "none"]

NoResponse == [status |-> 0]

\* Number of invocations of getAllPatients that run side by side.
MaxCalls == 2

Calls == 1..MaxCalls

\* An invocation that has not started, or has sent its response
NoCall == [at |-> "idle"]

\* A query that has just been given a key it has no data for: data is
\* undefined (no response is held) and the request for the key is on its way.
FirstFetch ==
  [data |-> NoResponse, isFetching |-> TRUE, failureCount |-> 0,
   isError |-> FALSE]

\* The page PatientList as it is mounted
Mounted ==
  /\ currentPage = 1
  /\ itemsPerPage = 10
  /\ sortField = ""
  /\ sortDirection = "asc"
  /\ listQuery = FirstFetch
  /\ cache = [key \in {} |-> FirstFetch]
  /\ showAddModal = FALSE
  /\ editingPatient = null
  /\ showDeleteDialog = FALSE
  /\ patientToDelete = null
  /\ deletingPatientId = NoId
  /\ deleteCall = null
  /\ formCall = null
  /\ timers = 0
  /\ toast = null

\* The backend as it starts, with the collection `coll` in Firestore
Started(coll) ==
  /\ store = coll
  /\ deleted = {}
  /\ available = TRUE
  /\ calls = [c \in Calls |-> NoCall]
  /\ req = NoRequest
  /\ res = NoResponse

Init == Started(<<>>) /\ Mounted

\* snapshot.docs of getDocs(collection(db, 'patients')), as document ids
RECURSIVE IdsInOrder(_)
IdsInOrder(S) ==
  IF S = {} THEN <<>>
  ELSE LET m == CHOOSE i \in S : \A j \in S : i <= j
       IN  <<m>> \o IdsInOrder(S \ {m})

\* snapshot.docs.map(doc => ({ id: doc.id, ...doc.data() }))
getDocs(coll) ==
  LET ids == IdsInOrder(DOMAIN coll)
  IN  [k \in 1..Len(ids) |-> coll[ids[k]] @@ ("id" :> ids[k])]

-----------------------------------------------------------------------------
(* PatientController.createPatient *)

\* (a slip: the status accepted in lower case too)
validStatusesAnyCase ==
  {"Inquiry", "Onboarding", "Active", "Churned", "active"}

validStatuses == {"Inquiry", "Onboarding", "Active", "Churned"}

\* (a slip: dob left out of the check)
MissingRequiredButDob(data) ==
  \/ Falsy(Get(data, "firstName"))
  \/ Falsy(Get(data, "lastName"))
  \/ Falsy(Get(data, "status"))

\* !firstName || !lastName || !dob || !status
MissingRequired(data) ==
  \/ Falsy(Get(data, "firstName"))
  \/ Falsy(Get(data, "lastName"))
  \/ Falsy(Get(data, "dob"))
  \/ Falsy(Get(data, "status"))

\* POST /patients with body patientData.  addDoc stores the body as it
\* came in, under an auto-generated id: one that no document has and that no
\* request has named before; it rejects when Firestore does not answer.
createPatient(patientData) ==
  /\ req = NoRequest
  /\ req' = [method |-> "POST", body |-> patientData]
  /\ IF MissingRequired(patientData)
     THEN /\ res' = [status |-> 400,
                     error |-> "Missing required fields: firstName, lastName, dob, and status are required"]
          /\ UNCHANGED store
     ELSE IF Get(patientData, "status") \notin validStatuses
     THEN /\ res' = [status |-> 400,
                     error |-> "Invalid status. Must be one of: Inquiry, Onboarding, Active, Churned"]
          /\ UNCHANGED store
     ELSE IF ~available
     THEN /\ res' = [status |-> 500, error |-> "Failed to create patient"]
          /\ UNCHANGED store
     ELSE \E id \in Ids \ (DOMAIN store \cup deleted) :
            /\ store' = store @@ (id :> patientData)
            /\ res' = [status |-> 201, id |-> id,
                       message |-> "Patient created successfully"]
  /\ UNCHANGED <<deleted, available, calls, clientVars>>

-----------------------------------------------------------------------------
(* PatientController.getAllPatients *)

\* The outcome of one operand `patient.f.toLowerCase().includes(searchLower)`
\* of the filter: "throw" when f is missing (a TypeError), except behind ?.
\* where the operand is undefined, hence falsy.
Operand(patient, f, optional, searchLower) ==
  LET v == Get(patient, f)
  IN  IF v = undefined THEN (IF optional THEN "false" ELSE "throw")
      ELSE IF includes(toLowerCase(Utf16(v)), searchLower) THEN "true"
      ELSE "false"

\* a || b with a already evaluated: b is evaluated only when a is falsy
OrOperand(a, patient, f, optional, searchLower) ==
  IF a = "false" THEN Operand(patient, f, optional, searchLower) ELSE a

\* The filter callback: firstName || lastName || middleName? || city ||
\* state || status, left to right.
Matches(patient, searchLower) ==
  LET o1 == Operand(patient, "firstName", FALSE, searchLower)
      o2 == OrOperand(o1, patient, "lastName", FALSE, searchLower)
      o3 == OrOperand(o2, patient, "middleName", TRUE, searchLower)
      o4 == OrOperand(o3, patient, "city", FALSE, searchLower)
      o5 == OrOperand(o4, patient, "state", FALSE, searchLower)
  IN  OrOperand(o5, patient, "status", FALSE, searchLower)

\* Array.prototype.filter with a callback of outcomes keep
RECURSIVE SelectKept(_, _)
SelectKept(patients, keep) ==
  IF patients = <<>> THEN <<>>
  ELSE (IF keep[1] = "true" THEN <<Head(patients)>> ELSE <<>>)
       \o SelectKept(Tail(patients), Tail(keep))

\* `if (search) patients = patients.filter(...)`: the filtered list, or
\* "throw" when the callback throws on some document.
Filter(patients, search) ==
  IF Falsy(search) THEN [threw |-> FALSE, patients |-> patients]
  ELSE LET searchLower == toLowerCase(Utf16(search))
           keep == [k \in 1..Len(patients) |-> Matches(patients[k], searchLower)]
       IN  IF \E k \in 1..Len(patients) : keep[k] = "throw"
           THEN [threw |-> TRUE, patients |-> <<>>]
           ELSE [threw |-> FALSE, patients |-> SelectKept(patients, keep)]

\* (a slip: the name key compared as typed, not lowercased)
SortValueNameAsTyped(a, sortBy) ==
  CASE sortBy = "name" ->
         Text(Get(a, "firstName")) \o Space
         \o Utf16(OrElse(Get(a, "middleName"), "")) \o Space
         \o Text(Get(a, "lastName"))
    [] sortBy = "dob" -> getTime(Get(a, "dob"))
    [] sortBy = "status" -> toLowerCase(Utf16(Get(a, "status")))
    [] sortBy = "location" ->
         toLowerCase(Text(Get(a, "city")) \o Space \o Text(Get(a, "state"))
                     \o Space \o Text(Get(a, "zipCode")))
    [] OTHER -> Utf16(OrElse(Get(a, sortBy), ""))

\* aValue / bValue of the comparator: the derived key of `a` under sortBy.
\* For dob it is a number, otherwise a string (as code units).
SortValue(a, sortBy) ==
  CASE sortBy = "name" ->
         toLowerCase(Text(Get(a, "firstName")) \o Space
                     \o Utf16(OrElse(Get(a, "middleName"), "")) \o Space
                     \o Text(Get(a, "lastName")))
    [] sortBy = "dob" -> getTime(Get(a, "dob"))
    [] sortBy = "status" -> toLowerCase(Utf16(Get(a, "status")))
    [] sortBy = "location" ->
         toLowerCase(Text(Get(a, "city")) \o Space \o Text(Get(a, "state"))
                     \o Space \o Text(Get(a, "zipCode")))
    [] OTHER -> Utf16(OrElse(Get(a, sortBy), ""))

\* aValue < bValue
ValueLess(aValue, bValue, sortBy) ==
  IF sortBy = "dob" THEN aValue < bValue ELSE StrLess(aValue, bValue)

\* (a slip: a two-way comparator, which never answers 0)
CompareTwoWay(a, b, sortBy, sortOrder) ==
  LET aValue == SortValue(a, sortBy)
      bValue == SortValue(b, sortBy)
  IN  IF ValueLess(aValue, bValue, sortBy)
        THEN (IF sortOrder = "asc" THEN -1 ELSE 1)
        ELSE (IF sortOrder = "asc" THEN 1 ELSE -1)

\* The comparator handed to sort
Compare(a, b, sortBy, sortOrder) ==
  LET aValue == SortValue(a, sortBy)
      bValue == SortValue(b, sortBy)
  IN  IF ValueLess(aValue, bValue, sortBy)
        THEN (IF sortOrder = "asc" THEN -1 ELSE 1)
      ELSE IF ValueLess(bValue, aValue, sortBy)
        THEN (IF sortOrder = "asc" THEN 1 ELSE -1)
      ELSE 0

\* One step of a stable sort: x goes behind every element of the sorted
\* prefix it does not compare below.
RECURSIVE Insert(_, _, _, _)
Insert(sorted, x, sortBy, sortOrder) ==
  IF sorted = <<>> THEN <<x>>
  ELSE LET last == sorted[Len(sorted)]
       IN  IF Compare(x, last, sortBy, sortOrder) < 0
           THEN Append(Insert(SubSeq(sorted, 1, Len(sorted) - 1), x,
                              sortBy, sortOrder), last)
           ELSE Append(sorted, x)

\* (a slip: descending order obtained by reversing the ascending result)
RECURSIVE SortThenReverse(_, _, _)
SortThenReverse(patients, sortBy, sortOrder) ==
  IF patients = <<>> THEN <<>>
  ELSE IF sortOrder = "asc"
    THEN Insert(SortThenReverse(SubSeq(patients, 1, Len(patients) - 1),
                                sortBy, "asc"),
                patients[Len(patients)], sortBy, "asc")
  ELSE LET up == SortThenReverse(patients, sortBy, "asc")
       IN  [k \in 1..Len(up) |-> up[Len(up) + 1 - k]]

\* Array.prototype.sort with the comparator: stable since ES2019, and the
\* comparator is a consistent ordering of the keys, so the result is the
\* one stable ordering of the list.
RECURSIVE Sort(_, _, _)
Sort(patients, sortBy, sortOrder) ==
  IF patients = <<>> THEN <<>>
  ELSE Insert(Sort(SubSeq(patients, 1, Len(patients) - 1), sortBy, sortOrder),
              patients[Len(patients)], sortBy, sortOrder)

\* Math.ceil(n / d) for n >= 0 and d >= 1
Ceil(n, d) == (n + d - 1) \div d

Min(a, b) == IF a < b THEN a ELSE b

\* Array.prototype.slice(start, end) with 0 <= start <= end
slice(arr, start, end) == SubSeq(arr, Min(start, Len(arr)) + 1, Min(end, Len(arr)))

\* (a slip: the page number taken as the index of the page)
StartIndexFromPage(page, limit) == page * limit

\* const startIndex = (page - 1) * limit
StartIndex(page, limit) == (page - 1) * limit

\* (a slip: the bound off by one, so that the page after the last is served)
PageExceedsByTwo(page, totalPages) == page > totalPages + 1 /\ totalPages > 0

\* page > totalPages && totalPages > 0
PageExceeds(page, totalPages) == page > totalPages /\ totalPages > 0

\* Lines 127-151: the page of the filtered and sorted list and its
\* pagination data, or the rejection of a page past the last one.
Paginate(patients, page, limit) ==
  LET totalPatients == Len(patients)
      totalPages == Ceil(totalPatients, limit)
      startIndex == StartIndex(page, limit)
      endIndex == startIndex + limit
      paginatedPatients == slice(patients, startIndex, endIndex)
  IN  IF PageExceeds(page, totalPages)
      THEN [status |-> 400, error |-> "Page number exceeds total pages"]
      ELSE [status |-> 200,
            patients |-> paginatedPatients,
            pagination |-> [currentPage |-> page,
                            totalPages |-> totalPages,
                            totalPatients |-> totalPatients,
                            limit |-> limit,
                            hasNextPage |-> page < totalPages,
                            hasPreviousPage |-> page > 1],
            message |-> "Patients retrieved successfully"]

\* Lines 59-63: the query parameters with their defaults
Params(query) ==
  [page |-> NumOrElse(parseInt(Get(query, "page")), 1),
   limit |-> NumOrElse(parseInt(Get(query, "limit")), 10),
   sortBy |-> OrElse(Get(query, "sortBy"), "firstName"),
   sortOrder |-> OrElse(Get(query, "sortOrder"), "asc"),
   search |-> OrElse(Get(query, "search"), "")]

\* (a slip: the collection fetched before the parameters are looked at)
ListResponseFetchingFirst(coll, query) ==
  LET p == Params(query)
  IN  IF ~available
        THEN [status |-> 500, error |-> "Failed to fetch patients"]
      ELSE IF p.page < 1
        THEN [status |-> 400, error |-> "Page must be greater than 0"]
      ELSE IF p.limit < 1 \/ p.limit > 100
        THEN [status |-> 400, error |-> "Limit must be between 1 and 100"]
      ELSE LET filtered == Filter(getDocs(coll), p.search)
           IN  IF filtered.threw
                 THEN [status |-> 500, error |-> "Failed to fetch patients"]
               ELSE Paginate(Sort(filtered.patients, p.sortBy, p.sortOrder),
                             p.page, p.limit)

\* The response of getAllPatients to `query` when getDocs returns `coll`, or
\* rejects because Firestore does not answer.
ListResponse(coll, query) ==
  LET p == Params(query)
  IN  IF p.page < 1
        THEN [status |-> 400, error |-> "Page must be greater than 0"]
      ELSE IF p.limit < 1 \/ p.limit > 100
        THEN [status |-> 400, error |-> "Limit must be between 1 and 100"]
      ELSE IF ~available
        THEN [status |-> 500, error |-> "Failed to fetch patients"]
      ELSE LET filtered == Filter(getDocs(coll), p.search)
           IN  IF filtered.threw
                 THEN [status |-> 500, error |-> "Failed to fetch patients"]
               ELSE Paginate(Sort(filtered.patients, p.sortBy, p.sortOrder),
                             p.page, p.limit)

\* (a slip: the documents written back as they were mapped, with their id)
getAllPatientsWritingBack(query) ==
  /\ req = NoRequest
  /\ req' = [method |-> "GET", query |-> query]
  /\ res' = ListResponse(store, query)
  /\ store' = [id \in DOMAIN store |-> store[id] @@ ("id" :> id)]
  /\ UNCHANGED <<deleted, available, calls, clientVars>>

\* GET /patients?query
getAllPatients(query) ==
  /\ req = NoRequest
  /\ req' = [method |-> "GET", query |-> query]
  /\ res' = ListResponse(store, query)
  /\ UNCHANGED <<store, deleted, available, calls, clientVars>>

-----------------------------------------------------------------------------
(* PatientController.getPatientById *)

\* (a slip: the document data returned without the document id)
ReadResponseDataOnly(coll, id) ==
  IF ~available
  THEN [status |-> 500, error |-> "Failed to fetch patient"]
  ELSE IF id \notin DOMAIN coll
  THEN [status |-> 404, error |-> "Patient not found"]
  ELSE [status |-> 200, patient |-> coll[id],
        message |-> "Patient retrieved successfully"]

\* The response of getPatientById to `id` when getDocs returns `coll`:
\* patients.find(p => p.id === id) over the fetched collection; or when
\* getDocs rejects because Firestore does not answer.
ReadResponse(coll, id) ==
  LET patients == getDocs(coll)
      found == {k \in 1..Len(patients) : patients[k].id = id}
  IN  IF ~available
      THEN [status |-> 500, error |-> "Failed to fetch patient"]
      ELSE IF found = {}
      THEN [status |-> 404, error |-> "Patient not found"]
      ELSE [status |-> 200,
            patient |-> patients[CHOOSE k \in found : \A j \in found : k <= j],
            message |-> "Patient retrieved successfully"]

\* GET /patients/:id.  The route does not match an empty id, so the check
\* `!id` never answers.
getPatientById(id) ==
  /\ req = NoRequest
  /\ req' = [method |-> "GET", id |-> id]
  /\ res' = ReadResponse(store, id)
  /\ UNCHANGED <<store, deleted, available, calls, clientVars>>

-----------------------------------------------------------------------------
(* PatientController.updatePatient *)

\* The properties of firebaseData
UpdatedFields ==
  {"firstName", "middleName", "lastName", "dob", "status", "city", "state",
   "zipCode"}

\* const firebaseData = { firstName: updateData.firstName, ... }: each of the
\* eight properties is there, with the value undefined when the body has none.
firebaseData(updateData) == [f \in UpdatedFields |-> Get(updateData, f)]

\* (a slip: the document written whether or not it exists, as setDoc with
\* merge does)
updateDocOrCreate(coll, id, data) ==
  IF \E f \in DOMAIN data : data[f] = undefined
  THEN [threw |-> TRUE, coll |-> coll]
  ELSE IF ~available
  THEN [threw |-> TRUE, coll |-> coll]
  ELSE IF id \notin DOMAIN coll
  THEN [threw |-> FALSE, coll |-> coll @@ (id :> data)]
  ELSE [threw |-> FALSE, coll |-> [coll EXCEPT ![id] = data @@ coll[id]]]

\* updateDoc(doc(db, 'patients', id), data): rejects a field value of
\* undefined, rejects when Firestore does not answer, and rejects a
\* document that does not exist; otherwise the named fields
\* are overwritten and every other field of the document stays.
updateDoc(coll, id, data) ==
  IF \E f \in DOMAIN data : data[f] = undefined
  THEN [threw |-> TRUE, coll |-> coll]
  ELSE IF ~available
  THEN [threw |-> TRUE, coll |-> coll]
  ELSE IF id \notin DOMAIN coll
  THEN [threw |-> TRUE, coll |-> coll]
  ELSE [threw |-> FALSE, coll |-> [coll EXCEPT ![id] = data @@ coll[id]]]

\* PUT /patients/:id with body updateData
updatePatient(id, updateData) ==
  /\ req = NoRequest
  /\ req' = [method |-> "PUT", id |-> id, body |-> updateData]
  /\ IF MissingRequired(updateData)
     THEN /\ res' = [status |-> 400,
                     error |-> "Missing required fields: firstName, lastName, dob, and status are required"]
          /\ UNCHANGED store
     ELSE IF Get(updateData, "status") \notin validStatuses
     THEN /\ res' = [status |-> 400,
                     error |-> "Invalid status. Must be one of: Inquiry, Onboarding, Active, Churned"]
          /\ UNCHANGED store
     ELSE LET written == updateDoc(store, id, firebaseData(updateData))
          IN  IF written.threw
              THEN /\ res' = [status |-> 500, error |-> "Failed to update patient"]
                   /\ UNCHANGED store
              ELSE /\ store' = written.coll
                   /\ res' = [status |-> 200, id |-> id,
                              message |-> "Patient updated successfully"]
  /\ UNCHANGED <<deleted, available, calls, clientVars>>

-----------------------------------------------------------------------------
(* PatientController.deletePatient *)

\* deleteDoc(doc(db, 'patients', id)): the collection without the document;
\* deleting a document that does not exist is no error.  (It rejects when
\* Firestore does not answer: deletePatient then answers 500.)
deleteDoc(coll, id) == [i \in DOMAIN coll \ {id} |-> coll[i]]

\* DELETE /patients/:id
deletePatient(id) ==
  /\ req = NoRequest
  /\ req' = [method |-> "DELETE", id |-> id]
  /\ IF ~available
     THEN /\ res' = [status |-> 500, error |-> "Failed to delete patient"]
          /\ UNCHANGED <<store, deleted>>
     ELSE /\ store' = deleteDoc(store, id)
          /\ deleted' = deleted \cup {id}
          /\ res' = [status |-> 200, id |-> id,
                     message |-> "Patient deleted successfully"]
  /\ UNCHANGED <<available, calls, clientVars>>

-----------------------------------------------------------------------------

\* The exchange is over once the handler has sent its response (each handler
\* sends exactly one); the router then hands the next request to a handler.
EndExchange ==
  /\ req # NoRequest
  /\ req' = NoRequest
  /\ res' = NoResponse
  /\ UNCHANGED <<store, deleted, available, calls, clientVars>>

Next ==
  \/ \E patientData \in Bodies : createPatient(patientData)
  \/ \E query \in Queries : getAllPatients(query)
  \/ EndExchange

Spec == Init /\ [][Next]_vars

\* Bob Ng as the edit form sends him after a move: every field a string, the
\* middleName empty, the street under `address`.
BobMoved ==
  ("address" :> "2 Oak Ave")
    @@ Patient("Bob", "", "Ng", "1980-01-01", "Churned", "Avon")

\* Bodies of PUT /patients/:id: from the edit form (BobMoved, AmyLee), from a
\* client that leaves middleName out (BobNg), and bodies the checks reject.
UpdateBodies == {BobMoved, AmyLee, BobNg} \cup BadBodies

\* Query strings of GET /patients beside the other routes: the defaults, and
\* both pages of two by name, descending.
RouteQueries ==
  { Query(undefined, undefined, undefined, undefined, undefined),
    Query("1", "2", "name", "desc", undefined),
    Query("2", "2", "name", "desc", undefined) }

\* The five routes of the router
RouteNext ==
  \/ \E patientData \in Bodies : createPatient(patientData)
  \/ \E query \in RouteQueries : getAllPatients(query)
  \/ \E id \in Ids : getPatientById(id)
  \/ \E id \in Ids, updateData \in UpdateBodies : updatePatient(id, updateData)
  \/ \E id \in Ids : deletePatient(id)
  \/ EndExchange

RouteSpec == Init /\ [][RouteNext]_vars

\* Firestore stops serving the calls (the service is down, or the rules deny
\* the access), and serves them again.
Outage ==
  /\ req = NoRequest
  /\ available
  /\ available' = FALSE
  /\ UNCHANGED <<store, deleted, calls, req, res, clientVars>>

Recovery ==
  /\ req = NoRequest
  /\ ~available
  /\ available' = TRUE
  /\ UNCHANGED <<store, deleted, calls, req, res, clientVars>>

\* Query strings of GET /patients while the store may be failing: those of
\* the routes, a search, a page below 1, and a limit on either side of
\* [1, 100].
StoreQueries ==
  RouteQueries \cup
  { Query(undefined, undefined, undefined, undefined, "12"),
    Query("-1", "2", undefined, undefined, undefined),
    Query("2", "-1", undefined, undefined, undefined),
    Query("2", "101", undefined, undefined, undefined) }

\* The five routes over a store that may fail
StoreNext ==
  \/ \E patientData \in Bodies : createPatient(patientData)
  \/ \E query \in StoreQueries : getAllPatients(query)
  \/ \E id \in Ids : getPatientById(id)
  \/ \E id \in Ids, updateData \in UpdateBodies : updatePatient(id, updateData)
  \/ \E id \in Ids : deletePatient(id)
  \/ EndExchange
  \/ Outage
  \/ Recovery

StoreSpec == Init /\ [][StoreNext]_vars

-----------------------------------------------------------------------------
(* PatientController.getAllPatients, invocations side by side *)

\* Invocation c of getAllPatients up to `await getDocs(...)`: the parameters
\* are parsed and checked (lines 59-73); a request that fails the checks is
\* answered at once, the others wait for the store.
getAllPatientsAwaits(c, query) ==
  /\ calls[c] = NoCall
  /\ IF LET p == Params(query)
        IN  p.page >= 1 /\ p.limit >= 1 /\ p.limit <= 100
     THEN /\ calls' = [calls EXCEPT ![c] = [at |-> "getDocs", query |-> query]]
          /\ UNCHANGED <<req, res>>
     ELSE /\ req = NoRequest
          /\ req' = [method |-> "GET", query |-> query]
          /\ res' = ListResponse(store, query)
          /\ UNCHANGED calls
  /\ UNCHANGED <<store, deleted, available, clientVars>>

\* Firestore serves the getDocs of invocation c: the snapshot is the
\* collection as it is at this instant.
getDocsServed(c) ==
  /\ calls[c].at = "getDocs"
  /\ calls' = [calls EXCEPT ![c] = [at |-> "fetched", query |-> calls[c].query,
                                     snapshot |-> store]]
  /\ UNCHANGED <<store, deleted, available, req, res, clientVars>>

\* (a slip: the pagination data counted over a second fetch of the
\* collection)
getAllPatientsResumesCountingAgain(c) ==
  /\ calls[c].at = "fetched"
  /\ req = NoRequest
  /\ req' = [method |-> "GET", query |-> calls[c].query]
  /\ res' = LET first == ListResponse(calls[c].snapshot, calls[c].query)
                second == ListResponse(store, calls[c].query)
            IN  IF first.status = 200 /\ second.status = 200
                THEN [first EXCEPT !.pagination = second.pagination]
                ELSE first
  /\ calls' = [calls EXCEPT ![c] = NoCall]
  /\ UNCHANGED <<store, deleted, available, clientVars>>

\* Invocation c from the await on (lines 77-151): filter, sort, pagination
\* and the response, all from the snapshot, in one run of the event loop.
getAllPatientsResumes(c) ==
  /\ calls[c].at = "fetched"
  /\ req = NoRequest
  /\ req' = [method |-> "GET", query |-> calls[c].query]
  /\ res' = ListResponse(calls[c].snapshot, calls[c].query)
  /\ calls' = [calls EXCEPT ![c] = NoCall]
  /\ UNCHANGED <<store, deleted, available, clientVars>>

\* Query strings of the invocations side by side: the second page of one
\* by name, descending, which is there or not, and the last or not, as the
\* collection changes; and a page below 1.
SideQueries ==
  { Query("2", "1", "name", "desc", undefined),
    Query("-1", "1", undefined, undefined, undefined) }

\* Listings side by side with the writing routes
SideNext ==
  \/ \E c \in Calls, query \in SideQueries : getAllPatientsAwaits(c, query)
  \/ \E c \in Calls : getDocsServed(c)
  \/ \E c \in Calls : getAllPatientsResumes(c)
  \/ createPatient(BobNg)
  \/ \E id \in Ids : deletePatient(id)
  \/ EndExchange

SideSpec == Init /\ [][SideNext]_vars

-----------------------------------------------------------------------------
(* PatientList and PatientTable: the listing, its query and its controls *)

\* Size of the largest collection the backend answers a listing from.
MaxRows == 31

\* Sizes of the collection at the time of a listing: empty, less than a
\* page, a few pages, and more than five pages of five.
Totals == {0, 2, 12, MaxRows}

\* The collection when it holds n patients
Collection(n) == [i \in 1..n |-> BobNg]

\* new URLSearchParams({ page, limit, ...(sortField && { sortBy }),
\* ...(sortDirection && { sortOrder }) })
SearchParams(page, limit, field, direction) ==
  Query(ToString(page), ToString(limit),
        IF field = "" THEN undefined ELSE field,
        IF direction = "" THEN undefined ELSE direction,
        undefined)

\* The request of queryFn for the current queryKey
ListRequest ==
  SearchParams(currentPage, itemsPerPage, sortField, sortDirection)

\* useQuery under a new queryKey: a key the state already has keeps its
\* query; another key starts with no data and fetches.  (The entry of a key
\* that was left is taken to be collected when the key comes back.)
useQuery(page, limit, field, direction) ==
  listQuery' =
    IF <<page, limit, field, direction>>
         = <<currentPage, itemsPerPage, sortField, sortDirection>>
    THEN listQuery
    ELSE FirstFetch

\* The four useState setters of the listing, and the render that follows
SetListing(page, limit, field, direction) ==
  /\ currentPage' = page
  /\ itemsPerPage' = limit
  /\ sortField' = field
  /\ sortDirection' = direction
  /\ useQuery(page, limit, field, direction)

\* retry: 1
retry == 1

\* queryFn has failed: one more attempt while failureCount is below retry,
\* then the query is in error and keeps the data it had.
QueryFailed ==
  listQuery' =
    IF listQuery.failureCount < retry
    THEN [listQuery EXCEPT !.failureCount = @ + 1]
    ELSE [listQuery EXCEPT !.isFetching = FALSE, !.isError = TRUE,
                           !.failureCount = @ + 1]

\* queryFn settles: the backend answers the request from the collection
\* `coll`.  Axios rejects a status outside 2xx.
ListSettled(coll) ==
  /\ listQuery.isFetching
  /\ LET answer == ListResponse(coll, ListRequest)
     IN  IF answer.status = 200
         THEN listQuery' = [data |-> answer, isFetching |-> FALSE,
                            failureCount |-> 0, isError |-> FALSE]
         ELSE QueryFailed
  /\ UNCHANGED <<currentPage, itemsPerPage, sortField, sortDirection>>
  /\ UNCHANGED <<serverVars, cache, dialogVars>>

\* queryFn settles with the answer the backend gives when the collection
\* holds `total` patients
ListAnswered(total) == ListSettled(Collection(total))

\* queryFn settles without a response
ListUnanswered ==
  /\ listQuery.isFetching
  /\ QueryFailed
  /\ UNCHANGED <<currentPage, itemsPerPage, sortField, sortDirection>>
  /\ UNCHANGED <<serverVars, cache, dialogVars>>

\* const pagination = response?.pagination
HasPagination == listQuery.data.status = 200

pagination == listQuery.data.pagination

\* {pagination && pagination.totalPatients > 0 && ( ...controls... )}
ControlsShown == HasPagination /\ pagination.totalPatients > 0

\* (a slip: the page kept where it was)
handleSortKeepingPage(field) ==
  /\ IF sortField = field
     THEN SetListing(currentPage, itemsPerPage, sortField,
                     IF sortDirection = "asc" THEN "desc" ELSE "asc")
     ELSE SetListing(currentPage, itemsPerPage, field, "asc")
  /\ UNCHANGED <<serverVars, cache, dialogVars>>

\* A click on a column header
handleSort(field) ==
  /\ IF sortField = field
     THEN SetListing(1, itemsPerPage, sortField,
                     IF sortDirection = "asc" THEN "desc" ELSE "asc")
     ELSE SetListing(1, itemsPerPage, field, "asc")
  /\ UNCHANGED <<serverVars, cache, dialogVars>>

\* Number(value) for the value of a select item
Number(value) == DigitsValue(Utf16(value), 0)

\* (a slip: the page kept where it was)
handleItemsPerPageChangeKeepingPage(value) ==
  /\ ControlsShown
  /\ SetListing(currentPage, Number(value), sortField, sortDirection)
  /\ UNCHANGED <<serverVars, cache, dialogVars>>

\* A choice in the page-size select
handleItemsPerPageChange(value) ==
  /\ ControlsShown
  /\ SetListing(1, Number(value), sortField, sortDirection)
  /\ UNCHANGED <<serverVars, cache, dialogVars>>

\* setCurrentPage(page)
handlePageChange(page) ==
  /\ SetListing(page, itemsPerPage, sortField, sortDirection)
  /\ UNCHANGED <<serverVars, cache, dialogVars>>

\* A click on "Previous page":
\* pagination.hasPreviousPage && onPageChange(pagination.currentPage - 1)
ClickPrevious ==
  /\ ControlsShown
  /\ IF pagination.hasPreviousPage
     THEN handlePageChange(pagination.currentPage - 1)
     ELSE UNCHANGED vars

\* A click on "Next page":
\* pagination.hasNextPage && onPageChange(pagination.currentPage + 1)
ClickNext ==
  /\ ControlsShown
  /\ IF pagination.hasNextPage
     THEN handlePageChange(pagination.currentPage + 1)
     ELSE UNCHANGED vars

\* Array.from({ length: Math.min(5, pagination.totalPages) }, ...): the
\* indices of the numbered controls
PageControls == 0..(Min(5, pagination.totalPages) - 1)

\* (a slip: the window centred on the current page wherever it is)
pageNumberCentred(i) == pagination.currentPage - 2 + i

\* pageNumber of the numbered control i
pageNumber(i) ==
  IF pagination.totalPages <= 5 THEN i + 1
  ELSE IF pagination.currentPage <= 3 THEN i + 1
  ELSE IF pagination.currentPage >= pagination.totalPages - 2
    THEN pagination.totalPages - 4 + i
  ELSE pagination.currentPage - 2 + i

\* A click on the numbered control i
ClickPageNumber(i) ==
  /\ ControlsShown
  /\ i \in PageControls
  /\ handlePageChange(pageNumber(i))

\* The column headers of the table
Columns == {"name", "dob", "status", "location"}

\* The items of the page-size select
PageSizes == {"5", "10", "20", "50"}

\* The listing in the browser: the user at the table, the backend answering
TableNext ==
  \/ \E field \in Columns : handleSort(field)
  \/ \E value \in PageSizes : handleItemsPerPageChange(value)
  \/ ClickPrevious
  \/ ClickNext
  \/ \E i \in 0..4 : ClickPageNumber(i)
  \/ \E total \in Totals : ListAnswered(total)
  \/ ListUnanswered

TableSpec == Init /\ [][TableNext]_vars

-----------------------------------------------------------------------------
(* PatientList: the delete dialog *)

\* Number of rows of the displayed page, from the top, that the user acts on.
MaxClicked == 2

\* const patients = response?.patients || []
patients == IF HasPagination THEN listQuery.data.patients ELSE <<>>

\* The rows the user clicks in
Rows == 1..Min(Len(patients), MaxClicked)

\* Sizes of the collection while the dialogs are in use: empty, one page of
\* ten, two pages of ten.
FewTotals == {0, 2, 12}

\* queryClient.invalidateQueries({ queryKey: ['patients'] }): the query of
\* the current key is marked stale and fetched again, with the request of
\* the current key; the data it has stays until the answer is in.
invalidateQueries ==
  listQuery' = [listQuery EXCEPT !.isFetching = TRUE, !.failureCount = 0,
                                 !.isError = HasPagination /\ @]

\* A click on the trash icon of row k
handleDeleteClick(k) ==
  /\ k \in Rows
  /\ patientToDelete' =
       [id |-> patients[k].id,
        name |-> patients[k].firstName \o " " \o patients[k].lastName]
  /\ showDeleteDialog' = TRUE
  /\ UNCHANGED <<editingPatient, showAddModal, deletingPatientId, deleteCall,
                 formCall, timers, toast>>
  /\ UNCHANGED <<serverVars, cache, tableVars>>

\* Cancel in the dialog
handleDeleteCancel ==
  /\ showDeleteDialog
  /\ showDeleteDialog' = FALSE
  /\ patientToDelete' = null
  /\ UNCHANGED <<editingPatient, showAddModal, deletingPatientId, deleteCall,
                 formCall, timers, toast>>
  /\ UNCHANGED <<serverVars, cache, tableVars>>

\* Confirm in the dialog, up to `await api.delete(...)`.  One call is
\* awaited at a time.
handleDeleteConfirm ==
  /\ showDeleteDialog
  /\ deleteCall = null
  /\ IF patientToDelete = null
     THEN UNCHANGED <<deletingPatientId, deleteCall>>
     ELSE /\ deletingPatientId' = patientToDelete.id
          /\ deleteCall' = patientToDelete
  /\ UNCHANGED <<editingPatient, showAddModal, showDeleteDialog,
                 patientToDelete, formCall, timers, toast>>
  /\ UNCHANGED <<serverVars, cache, tableVars>>

\* (a slip: the listing invalidated in `finally`, whatever the outcome)
DeleteSettledInvalidatingAlways(fulfilled) ==
  /\ deleteCall # null
  /\ invalidateQueries
  /\ toast' = IF fulfilled
              THEN [kind |-> "success",
                    message |-> deleteCall.name \o " deleted successfully!"]
              ELSE [kind |-> "error",
                    message |-> "Failed to delete patient. Please try again."]
  /\ deletingPatientId' = NoId
  /\ showDeleteDialog' = FALSE
  /\ patientToDelete' = null
  /\ deleteCall' = null
  /\ UNCHANGED <<currentPage, itemsPerPage, sortField, sortDirection>>
  /\ UNCHANGED <<editingPatient, showAddModal, formCall, timers>>
  /\ UNCHANGED <<serverVars, cache, cache>>

\* handleDeleteConfirm from the point where api.delete settles: the rest of
\* try, or catch, and then finally.  Axios makes no second attempt.
DeleteSettled(fulfilled) ==
  /\ deleteCall # null
  /\ IF fulfilled
     THEN /\ invalidateQueries
          /\ toast' = [kind |-> "success",
                       message |-> deleteCall.name \o " deleted successfully!"]
     ELSE /\ UNCHANGED listQuery
          /\ toast' = [kind |-> "error",
                       message |-> "Failed to delete patient. Please try again."]
  /\ deletingPatientId' = NoId
  /\ showDeleteDialog' = FALSE
  /\ patientToDelete' = null
  /\ deleteCall' = null
  /\ UNCHANGED <<currentPage, itemsPerPage, sortField, sortDirection>>
  /\ UNCHANGED <<editingPatient, showAddModal, formCall, timers>>
  /\ UNCHANGED <<serverVars, cache, cache>>

\* The user moving in the listing while a dialog or a form is in use
Browse ==
  \/ handleSort("name")
  \/ ClickPrevious
  \/ ClickNext
  \/ \E total \in FewTotals : ListAnswered(total)
  \/ ListUnanswered

\* The listing and the delete dialog
DeleteNext ==
  \/ Browse
  \/ \E k \in 1..MaxClicked : handleDeleteClick(k)
  \/ handleDeleteCancel
  \/ handleDeleteConfirm
  \/ \E fulfilled \in BOOLEAN : DeleteSettled(fulfilled)

DeleteSpec == Init /\ [][DeleteNext]_vars

-----------------------------------------------------------------------------
(* PatientList served by the backend: a page of ten and one more patient *)

\* axios sends the api.delete that is awaited; the backend handles it
ApiDelete == deleteCall # null /\ deletePatient(deleteCall.id)

\* `await api.delete(...)` settles with the answer of the backend
DeleteAnswered == req # NoRequest /\ DeleteSettled(res.status = 200)

\* The exchange is over once the page has the answer
DeleteExchanged == deleteCall = null /\ EndExchange

\* The user pages and deletes until a delete has reached the backend, and
\* then leaves the page alone.  queryFn is answered from the collection as
\* it is at that moment.
PageNext ==
  \/ deleted = {} /\ ClickPrevious
  \/ deleted = {} /\ ClickNext
  \/ \E k \in 1..MaxClicked : deleted = {} /\ handleDeleteClick(k)
  \/ deleted = {} /\ handleDeleteCancel
  \/ deleted = {} /\ handleDeleteConfirm
  \/ ListSettled(store)
  \/ ApiDelete
  \/ DeleteAnswered
  \/ DeleteExchanged

PageInit == Mounted /\ Started(Collection(itemsPerPage + 1))

PageSpec == PageInit /\ [][PageNext]_vars

\* Every request that is sent gets its answer.  For queryFn the condition
\* is WF_vars(ListSettled(store)) written out: the action is enabled exactly
\* while listQuery.isFetching, and each of its steps changes listQuery.
PageLiveSpec ==
  /\ PageSpec
  /\ ([]<>(~listQuery.isFetching) \/ []<><<ListSettled(store)>>_vars)
  /\ WF_vars(ApiDelete)
  /\ WF_vars(DeleteAnswered)

-----------------------------------------------------------------------------
(* PatientList: the queries of the keys the page has left *)

\* Number of queries of left keys the cache holds at a time.
MaxCached == 1

\* queryKey: ['patients', currentPage, itemsPerPage, sortField, sortDirection]
queryKey == <<currentPage, itemsPerPage, sortField, sortDirection>>

\* The request of queryFn for `key`: queryFn closes over the state of the
\* render that gave the query its key
RequestOf(key) == SearchParams(key[1], key[2], key[3], key[4])

\* A query that gets its observer back (refetchOnMount, staleTime 0): a
\* request on its way goes on, otherwise the query is fetched again
Refetching(query) ==
  IF query.isFetching THEN query
  ELSE [query EXCEPT !.isFetching = TRUE, !.failureCount = 0,
                     !.isError = query.data.status = 200 /\ @]

\* useQuery under a new queryKey, with the query cache: the query that is
\* left keeps its request if one is on its way, under its own key; the query
\* of the new key is the one the cache has, or a new one.  (A query that is
\* left with no request on its way is taken to be collected, as in useQuery.)
useQueryCached(key) ==
  IF key = queryKey
  THEN UNCHANGED <<listQuery, cache>>
  ELSE LET kept == (DOMAIN cache \ {key})
                     \cup (IF listQuery.isFetching THEN {queryKey} ELSE {})
       IN  /\ Cardinality(kept) <= MaxCached
           /\ listQuery' = IF key \in DOMAIN cache
                           THEN Refetching(cache[key])
                           ELSE FirstFetch
           /\ cache' =
                [k \in kept |-> IF k = queryKey THEN listQuery ELSE cache[k]]

\* The four useState setters of the listing, and the render that follows
SetListingCached(page, limit, field, direction) ==
  /\ currentPage' = page
  /\ itemsPerPage' = limit
  /\ sortField' = field
  /\ sortDirection' = direction
  /\ useQueryCached(<<page, limit, field, direction>>)

\* handleSort, with the query cache
handleSortCached(field) ==
  /\ IF sortField = field
     THEN SetListingCached(1, itemsPerPage, sortField,
                           IF sortDirection = "asc" THEN "desc" ELSE "asc")
     ELSE SetListingCached(1, itemsPerPage, field, "asc")
  /\ UNCHANGED <<serverVars, dialogVars>>

\* handlePageChange, with the query cache
handlePageChangeCached(page) ==
  /\ SetListingCached(page, itemsPerPage, sortField, sortDirection)
  /\ UNCHANGED <<serverVars, dialogVars>>

\* A click on "Previous page", with the query cache
ClickPreviousCached ==
  /\ ControlsShown
  /\ IF pagination.hasPreviousPage
     THEN handlePageChangeCached(pagination.currentPage - 1)
     ELSE UNCHANGED vars

\* A click on "Next page", with the query cache
ClickNextCached ==
  /\ ControlsShown
  /\ IF pagination.hasNextPage
     THEN handlePageChangeCached(pagination.currentPage + 1)
     ELSE UNCHANGED vars

\* (a slip: the answer to the request of a key that was left put on display)
StaleSettledIntoDisplayed(key, coll) ==
  /\ key \in DOMAIN cache
  /\ cache[key].isFetching
  /\ LET answer == ListResponse(coll, RequestOf(key))
     IN  /\ listQuery' =
              IF answer.status = 200
              THEN [data |-> answer, isFetching |-> FALSE,
                    failureCount |-> 0, isError |-> FALSE]
              ELSE listQuery
         /\ cache' = [cache EXCEPT ![key].isFetching = FALSE]
  /\ UNCHANGED <<currentPage, itemsPerPage, sortField, sortDirection>>
  /\ UNCHANGED <<serverVars, dialogVars>>

\* queryFn of a key that was left settles: the answer goes to the query of
\* that key.  A query without observer makes no further attempt.
StaleSettled(key, coll) ==
  /\ key \in DOMAIN cache
  /\ cache[key].isFetching
  /\ LET answer == ListResponse(coll, RequestOf(key))
     IN  cache' =
           [cache EXCEPT ![key] =
              IF answer.status = 200
              THEN [data |-> answer, isFetching |-> FALSE,
                    failureCount |-> 0, isError |-> FALSE]
              ELSE [@ EXCEPT !.isFetching = FALSE, !.isError = TRUE,
                             !.failureCount = @ + 1]]
  /\ UNCHANGED <<tableVars, serverVars, dialogVars>>

\* queryFn of a key that was left settles without a response
StaleUnanswered(key) ==
  /\ key \in DOMAIN cache
  /\ cache[key].isFetching
  /\ cache' = [cache EXCEPT ![key].isFetching = FALSE, ![key].isError = TRUE,
                            ![key].failureCount = @ + 1]
  /\ UNCHANGED <<tableVars, serverVars, dialogVars>>

\* A query without observer and without a request on its way is collected
\* (gcTime)
Collected(key) ==
  /\ key \in DOMAIN cache
  /\ ~cache[key].isFetching
  /\ cache' = [k \in DOMAIN cache \ {key} |-> cache[k]]
  /\ UNCHANGED <<tableVars, serverVars, dialogVars>>

\* The collection when it holds n patients of two names
Mixed(n) == [i \in 1..n |-> IF i % 2 = 1 THEN BobNg ELSE AmyLee]

\* Sizes of the collection while requests race: two pages of ten
RaceTotals == {12}

\* The keys the page can come to from the first one by sorting on the name
\* and paging
RaceKeys ==
  {<<page, 10, field[1], field[2]>> :
     page \in 1..2,
     field \in {<<"", "asc">>, <<"name", "asc">>, <<"name", "desc">>}}

\* The listing with the query cache: the user sorts and pages while the
\* requests of the keys that were left are still on their way
RaceNext ==
  \/ handleSortCached("name")
  \/ ClickPreviousCached
  \/ ClickNextCached
  \/ \E total \in RaceTotals : ListSettled(Mixed(total))
  \/ ListUnanswered
  \/ \E key \in RaceKeys, total \in RaceTotals : StaleSettled(key, Mixed(total))
  \/ \E key \in RaceKeys : StaleUnanswered(key)
  \/ \E key \in RaceKeys : Collected(key)

RaceSpec == Init /\ [][RaceNext]_vars

-----------------------------------------------------------------------------
(* PatientForm and its schema; the add and edit modals *)

\* White space, as \s of a regular expression and as trim() see it
IsWhiteSpace(c) ==
  c \in {9, 10, 11, 12, 13, 32, 160, 5760, 8232, 8233, 8239, 8287, 12288,
         65279} \cup 8192..8202

\* String.prototype.trim on code units
RECURSIVE trim(_)
trim(u) ==
  IF u = <<>> THEN u
  ELSE IF IsWhiteSpace(Head(u)) THEN trim(Tail(u))
  ELSE IF IsWhiteSpace(u[Len(u)]) THEN trim(SubSeq(u, 1, Len(u) - 1))
  ELSE u

IsLetter(c) == (c >= 65 /\ c <= 90) \/ (c >= 97 /\ c <= 122)

\* /^[a-zA-Z\s'-]*$/
NameText(u) ==
  \A i \in 1..Len(u) :
    IsLetter(u[i]) \/ IsWhiteSpace(u[i]) \/ u[i] = 39 \/ u[i] = 45

\* /^[a-zA-Z\s]+$/
StateText(u) ==
  /\ u # <<>>
  /\ \A i \in 1..Len(u) : IsLetter(u[i]) \/ IsWhiteSpace(u[i])

AllDigits(u) == \A i \in 1..Len(u) : IsDigit(u[i])

\* /^\d{5}(-\d{4})?$/
ZipText(u) ==
  \/ Len(u) = 5 /\ AllDigits(u)
  \/ /\ Len(u) = 10
     /\ AllDigits(SubSeq(u, 1, 5))
     /\ u[6] = 45
     /\ AllDigits(SubSeq(u, 7, 10))

\* new Date(), the day the form is filled in
today == "2026-01-01"

\* new Date(s).getFullYear()
getFullYear(s) == DigitsValue(SubSeq(Utf16(s), 1, 4), 0)

\* The refinement of dob; the dates typed are calendar dates or empty, and
\* the empty one has failed min(1) before.
DobAccepted(dob) ==
  /\ Len(Utf16(dob)) >= 1
  /\ getTime(dob) <= getTime(today)
  /\ getTime(dob) >= getTime("1900-01-01")
  /\ getFullYear(today) - getFullYear(dob) <= 120

\* patientFormSchema accepts the form data
patientFormSchema(data) ==
  /\ Len(Utf16(data.firstName)) >= 2 /\ Len(Utf16(data.firstName)) <= 50
  /\ NameText(Utf16(data.firstName))
  /\ Get(data, "middleName") # undefined =>
       /\ Len(Utf16(data.middleName)) <= 50
       /\ NameText(Utf16(data.middleName))
  /\ Len(Utf16(data.lastName)) >= 2 /\ Len(Utf16(data.lastName)) <= 50
  /\ NameText(Utf16(data.lastName))
  /\ DobAccepted(data.dob)
  /\ data.status \in validStatuses
  /\ Len(Utf16(data.street)) >= 5 /\ Len(Utf16(data.street)) <= 200
  /\ Len(Utf16(data.city)) >= 2 /\ Len(Utf16(data.city)) <= 100
  /\ NameText(Utf16(data.city))
  /\ Len(Utf16(data.state)) >= 2 /\ Len(Utf16(data.state)) <= 50
  /\ StateText(Utf16(data.state))
  /\ ZipText(Utf16(data.zipCode))

\* The values of the nine inputs of the form
FormData(first, middle, last, dob, status, street, city, state, zip) ==
  [firstName |-> first, middleName |-> middle, lastName |-> last,
   dob |-> dob, status |-> status, street |-> street, city |-> city,
   state |-> state, zipCode |-> zip]

\* What the user has typed when the form is submitted: Amy Lee typed
\* cleanly, Bob Ng typed with blanks around the words, and an entry the
\* schema turns down (a one-letter name, a short zip code).
TypedForms ==
  { FormData("Amy", "", "Lee", "1990-05-05", "Inquiry", "1 Elm St", "Avon",
             "NY", "12180"),
    FormData(" Bob", " ", "Ng ", "1980-01-01", "Active", " 1 Elm St",
             "Troy ", "NY ", "12180"),
    FormData("B", "", "Ng", "1980-01-01", "Active", "1 Elm St", "Troy",
             "NY", "1218") }

\* const apiData = { ...data, address: data.street }; delete apiData.street
apiData(data) ==
  [f \in (DOMAIN data \ {"street"}) \cup {"address"} |->
     IF f = "address" THEN data.street ELSE data[f]]

\* A modal covers the page
ModalOpen == showAddModal \/ editingPatient # null

\* A click on "Add Patient".  The timer of the previous submission (100 ms)
\* has run by the time the user is back at the button.
ClickAddPatient ==
  /\ ~ModalOpen
  /\ timers = 0
  /\ showAddModal' = TRUE
  /\ UNCHANGED <<editingPatient, showDeleteDialog, patientToDelete,
                 deletingPatientId, deleteCall, formCall, timers, toast>>
  /\ UNCHANGED <<serverVars, cache, tableVars>>

\* A click on the edit icon of row k
handleEdit(k) ==
  /\ ~ModalOpen
  /\ timers = 0
  /\ k \in Rows
  /\ editingPatient' = patients[k]
  /\ UNCHANGED <<showAddModal, showDeleteDialog, patientToDelete,
                 deletingPatientId, deleteCall, formCall, timers, toast>>
  /\ UNCHANGED <<serverVars, cache, tableVars>>

\* Cancel in the form: onClose of the modal that is open.  The button is
\* disabled while the form is submitting.
ClickCancel ==
  /\ ModalOpen
  /\ formCall = null
  /\ showAddModal' = FALSE
  /\ editingPatient' = null
  /\ UNCHANGED <<showDeleteDialog, patientToDelete, deletingPatientId,
                 deleteCall, formCall, timers, toast>>
  /\ UNCHANGED <<serverVars, cache, tableVars>>

\* handleSubmit(onSubmit) on what the user has typed: the resolver runs the
\* schema, and onSubmit runs only on data it accepts, up to the await of
\* api.put or api.post.  The button is disabled while the form is submitting.
onSubmit(data) ==
  /\ ModalOpen
  /\ formCall = null
  /\ formCall' =
       IF ~patientFormSchema(data) THEN null
       ELSE IF editingPatient # null
         THEN [method |-> "PUT", id |-> editingPatient.id, body |-> apiData(data)]
       ELSE [method |-> "POST", body |-> apiData(data)]
  /\ UNCHANGED <<showAddModal, editingPatient, showDeleteDialog,
                 patientToDelete, deletingPatientId, deleteCall, timers, toast>>
  /\ UNCHANGED <<serverVars, cache, tableVars>>

\* What api.post and api.put reject with: a response of the backend, which
\* carries its error text; a request that got no response; an error raised
\* before anything was sent.
Rejections ==
  { [response |-> [data |-> [error |-> "Failed to create patient"]],
     request |-> TRUE],
    [response |-> [data |-> [error |-> "Failed to update patient"]],
     request |-> TRUE],
    [request |-> TRUE],
    [message |-> "Network Error"] }

\* (a slip: error.request looked at first; it is set whenever a request went
\* out, answered or not)
errorMessageRequestFirst(error, isEditing) ==
  IF "request" \in DOMAIN error
  THEN "No response from server. Please check if the backend is running."
  ELSE IF "response" \in DOMAIN error
  THEN "Server error: " \o error.response.data.error
  ELSE IF isEditing THEN "Error updating patient. Please try again."
  ELSE "Error adding patient. Please try again."

\* errorMessage of the catch block
errorMessage(error, isEditing) ==
  IF "response" \in DOMAIN error
  THEN "Server error: " \o error.response.data.error
  ELSE IF "request" \in DOMAIN error
  THEN "No response from server. Please check if the backend is running."
  ELSE IF isEditing THEN "Error updating patient. Please try again."
  ELSE "Error adding patient. Please try again."

\* onSubmit from the point where the call resolves: the success toast, and
\* onSuccess of the modal, which closes it and sets the timer.
FormFulfilled ==
  /\ formCall # null
  /\ formCall' = null
  /\ toast' = [kind |-> "success",
               message |-> IF formCall.method = "PUT"
                           THEN "Patient updated successfully!"
                           ELSE "Patient added successfully!"]
  /\ showAddModal' = FALSE
  /\ editingPatient' = null
  /\ timers' = timers + 1
  /\ UNCHANGED <<showDeleteDialog, patientToDelete, deletingPatientId,
                 deleteCall>>
  /\ UNCHANGED <<serverVars, cache, tableVars>>

\* onSubmit from the point where the call rejects: the catch block
FormRejected(error) ==
  /\ formCall # null
  /\ formCall' = null
  /\ toast' = [kind |-> "error",
               message |-> errorMessage(error, formCall.method = "PUT")]
  /\ UNCHANGED <<showAddModal, editingPatient, showDeleteDialog,
                 patientToDelete, deletingPatientId, deleteCall, timers>>
  /\ UNCHANGED <<serverVars, cache, tableVars>>

\* setTimeout(() => { queryClient.invalidateQueries(...) }, 100) comes due
TimerFires ==
  /\ timers > 0
  /\ timers' = timers - 1
  /\ invalidateQueries
  /\ UNCHANGED <<currentPage, itemsPerPage, sortField, sortDirection>>
  /\ UNCHANGED <<showAddModal, editingPatient, showDeleteDialog,
                 patientToDelete, deletingPatientId, deleteCall, formCall,
                 toast>>
  /\ UNCHANGED <<serverVars, cache, cache>>

\* The listing and the two modals.  The page under an open modal is out of
\* reach of the pointer.
FormNext ==
  \/ ~ModalOpen /\ handleSort("name")
  \/ ~ModalOpen /\ ClickPrevious
  \/ ~ModalOpen /\ ClickNext
  \/ \E total \in FewTotals : ListAnswered(total)
  \/ ListUnanswered
  \/ ClickAddPatient
  \/ \E k \in 1..MaxClicked : handleEdit(k)
  \/ ClickCancel
  \/ \E data \in TypedForms : onSubmit(data)
  \/ FormFulfilled
  \/ \E error \in Rejections : FormRejected(error)
  \/ TimerFires

FormSpec == Init /\ [][FormNext]_vars

\* The timer callback runs once it is due
FormLiveSpec == FormSpec /\ WF_vars(TimerFires)

-----------------------------------------------------------------------------
(* Properties of GET /patients *)

\* The exchange in progress is a listing that was answered with a page.
Listed == req.method = "GET" /\ res.status = 200

\* The same query string asking for page k
PageQuery(query, k) == ("page" :> ToString(k)) @@ query

\* The patients of a response, none when the response is an error
PatientsOf(response) ==
  IF response.status = 200 THEN response.patients ELSE <<>>

\* The pages k..n that getAllPatients returns for the query, one after the other
RECURSIVE PagesFrom(_, _, _, _)
PagesFrom(coll, query, k, n) ==
  IF k > n THEN <<>>
  ELSE PatientsOf(ListResponse(coll, PageQuery(query, k)))
       \o PagesFrom(coll, query, k + 1, n)

\* The filtered and sorted list the handler pages through for the query
FilteredSorted(coll, query) ==
  LET p == Params(query)
  IN  Sort(Filter(getDocs(coll), p.search).patients, p.sortBy, p.sortOrder)

\* C1: for every collection and every accepted query, the pages 1..totalPages
\* that List returns, concatenated in page order, are exactly the filtered and
\* sorted list: every page is served, each record is on exactly one page, the
\* order is kept and the page lengths add up to totalPatients.
C1_PagesMakeUpTheListing ==
  Listed =>
    LET n == res.pagination.totalPages
        all == PagesFrom(store, req.query, 1, n)
    IN  /\ \A k \in 1..n : ListResponse(store, PageQuery(req.query, k)).status = 200
        /\ all = FilteredSorted(store, req.query)
        /\ Len(all) = res.pagination.totalPatients
        /\ \A i, j \in 1..Len(all) : i # j => all[i].id # all[j].id
        /\ res.patients = PatientsOf(ListResponse(store,
                            PageQuery(req.query, res.pagination.currentPage)))

\* A listing of three records in pages of two, the second (short) page served
C1_Witness ==
  /\ Listed
  /\ res.pagination.totalPatients = 3
  /\ res.pagination.totalPages = 2
  /\ res.pagination.currentPage = 2
  /\ Len(res.patients) = 1

\* All pages of the listing in progress, one after the other
WholeListing == PagesFrom(store, req.query, 1, res.pagination.totalPages)

\* Where the record stands in the collection as getDocs returned it
FetchIndex(patient) ==
  LET fetched == getDocs(store)
  IN  CHOOSE k \in 1..Len(fetched) : fetched[k].id = patient.id

\* The two records have the same derived key under the sort field in effect
SameKey(a, b) ==
  LET sortBy == Params(req.query).sortBy
  IN  SortValue(a, sortBy) = SortValue(b, sortBy)

\* C2: the sort is stable: two records of the listing whose derived keys are
\* equal under the requested sortBy stand in the response in the order in
\* which the fetched collection has them, for asc and for desc alike.
C2_EqualKeysKeepFetchOrder ==
  Listed =>
    LET all == WholeListing
    IN  \A i, j \in 1..Len(all) :
          (i < j /\ SameKey(all[i], all[j]))
            => FetchIndex(all[i]) < FetchIndex(all[j])

\* The first page of a descending listing of three records: two different
\* patients that tie, ahead of a third with a smaller key
C2_Witness ==
  /\ Listed
  /\ Params(req.query).sortOrder = "desc"
  /\ res.pagination.totalPatients = 3
  /\ Len(res.patients) = 2
  /\ res.patients[1].firstName # res.patients[2].firstName
  /\ SameKey(res.patients[1], res.patients[2])
  /\ ~SameKey(res.patients[2], WholeListing[3])

\* The length of the run of equal keys the list starts with
LeadingBlock(list) ==
  CHOOSE n \in 1..Len(list) :
    /\ \A k \in 1..n : SameKey(list[k], list[1])
    /\ n = Len(list) \/ ~SameKey(list[n + 1], list[1])

\* The list with its blocks of equal keys in reverse sequence, each block kept
\* as it is
RECURSIVE ReverseBlocks(_)
ReverseBlocks(list) ==
  IF list = <<>> THEN <<>>
  ELSE LET n == LeadingBlock(list)
       IN  ReverseBlocks(SubSeq(list, n + 1, Len(list))) \o SubSeq(list, 1, n)

\* C3: for the same collection, search and sortBy, the listing with
\* sortOrder=desc is the listing with sortOrder=asc with the sequence of its
\* equal-key blocks reversed and every block in the same internal order.
C3_DescReversesBlocksOfAsc ==
  (Listed /\ Params(req.query).sortOrder = "asc") =>
    LET descQuery == ("sortOrder" :> "desc") @@ req.query
        first == ListResponse(store, PageQuery(descQuery, 1))
    IN  /\ first.status = 200
        /\ PagesFrom(store, descQuery, 1, first.pagination.totalPages)
             = ReverseBlocks(WholeListing)

\* An ascending listing of three records in two blocks: one record, then two
\* different patients that tie
C3_Witness ==
  /\ Listed
  /\ Params(req.query).sortOrder = "asc"
  /\ Len(WholeListing) = 3
  /\ ~SameKey(WholeListing[1], WholeListing[2])
  /\ SameKey(WholeListing[2], WholeListing[3])
  /\ WholeListing[2].firstName # WholeListing[3].firstName

\* The page and limit parameters were accepted (lines 66-73 let them pass)
Accepted(query) ==
  LET p == Params(query)
  IN  p.page >= 1 /\ p.limit >= 1 /\ p.limit <= 100

\* C4: a List request for a page greater than totalPages, when the filtered
\* collection has totalPages > 0, is answered with the validation error 400
\* and never with an empty page of patients.
C4_PagePastTheLastIsRejected ==
  req.method = "GET" =>
    LET p == Params(req.query)
        filtered == Filter(getDocs(store), p.search)
        totalPages == Ceil(Len(filtered.patients), p.limit)
    IN  /\ ( /\ Accepted(req.query)
             /\ ~filtered.threw
             /\ totalPages > 0
             /\ p.page > totalPages )
           => /\ res.status = 400
              /\ res.error = "Page number exceeds total pages"
        /\ (Listed /\ res.pagination.totalPages > 0)
           => /\ res.patients # <<>>
              /\ res.pagination.currentPage <= res.pagination.totalPages

\* Page 2 asked of a single page of two records
C4_Witness ==
  /\ req.method = "GET"
  /\ Cardinality(DOMAIN store) = 2
  /\ Params(req.query).limit = 2
  /\ Params(req.query).page = 2
  /\ res.status = 400
  /\ res.error = "Page number exceeds total pages"

\* The integer a query parameter spells, NaN when it is absent or spells none
Spelled(query, name) == parseInt(Get(query, name))

\* C5: List rejects with 400 every request whose page parameter is an integer
\* below 1 (0 and negatives included) or whose limit parameter is an integer
\* outside [1,100] (0, negatives and values above 100 included); only an
\* absent or non-numeric page/limit falls back to the defaults 1 and 10.
C5_IntegersOutOfRangeAreRejected ==
  req.method = "GET" =>
    LET page == Spelled(req.query, "page")
        limit == Spelled(req.query, "limit")
    IN  ( \/ (~page.isNaN /\ page.value < 1)
          \/ (~limit.isNaN /\ (limit.value < 1 \/ limit.value > 100)) )
        => res.status = 400

\* The term occurs, letter case aside, in the record's value of the field
\* (a field the record does not have counts as empty)
FieldHas(patient, field, term) ==
  includes(toLowerCase(Utf16(OrElse(Get(patient, field), ""))),
           toLowerCase(Utf16(term)))

\* The fields a search looks at
SearchedFields ==
  {"firstName", "middleName", "lastName", "city", "state", "status"}

\* The ids of the stored records a search for the term is to find
Matching(term) ==
  {id \in DOMAIN store : \E f \in SearchedFields : FieldHas(store[id], f, term)}

\* C6: List with an empty search term filters nothing (totalPatients is the
\* size of the collection), and List with a term that matches no record
\* returns, for every page >= 1, a successful response with an empty page,
\* totalPatients = 0 and totalPages = 0, not an error.
C6_EmptyTermAndTermWithoutMatch ==
  (req.method = "GET" /\ Accepted(req.query)) =>
    LET search == Params(req.query).search
    IN  /\ (Falsy(search) /\ Listed)
           => res.pagination.totalPatients = Cardinality(DOMAIN store)
        /\ (~Falsy(search) /\ Matching(search) = {})
           => /\ res.status = 200
              /\ res.patients = <<>>
              /\ res.pagination.totalPatients = 0
              /\ res.pagination.totalPages = 0

\* C7: with a non-empty search term a record is in the filtered set if and
\* only if the lowercased term is a substring of the lowercased value of one
\* of firstName, middleName (absent as empty), lastName, city, state, status;
\* zipCode, dob and address are never searched, so search=active finds every
\* record whose status is Active, whatever the letter case of the term.
C7_FilteredSetIsTheMatchingSet ==
  (req.method = "GET" /\ Accepted(req.query)
     /\ ~Falsy(Params(req.query).search)) =>
    LET first == ListResponse(store, PageQuery(req.query, 1))
    IN  /\ first.status = 200
        /\ LET all == PagesFrom(store, req.query, 1, first.pagination.totalPages)
           IN  {all[k].id : k \in 1..Len(all)} = Matching(Params(req.query).search)

\* The four named sort fields
NamedSortFields == {"name", "dob", "status", "location"}

\* The lowercased text of the words joined by single spaces
RECURSIVE Joined(_)
Joined(words) ==
  IF Len(words) = 1 THEN toLowerCase(Utf16(words[1]))
  ELSE toLowerCase(Utf16(words[1])) \o Space \o Joined(Tail(words))

\* A field of the record as a word of a key, a missing one as "undefined"
Word(patient, field) ==
  IF field \in DOMAIN patient THEN patient[field] ELSE "undefined"

\* The name key with an absent or empty middleName left out: first and last
\* name joined by a single space
NameKeyWithoutGap(patient) ==
  IF Falsy(Get(patient, "middleName"))
  THEN Joined(<<patient.firstName, patient.lastName>>)
  ELSE Joined(<<patient.firstName, patient.middleName, patient.lastName>>)

\* The name key with the middleName always in its place, empty when absent:
\* first and last name are then two spaces apart
NameKeyWithGap(patient) ==
  Joined(<<patient.firstName, OrElse(Get(patient, "middleName"), ""),
           patient.lastName>>)

\* The keys of dob, status and location
OtherKey(patient, sortBy) ==
  CASE sortBy = "dob" -> getTime(patient.dob)
    [] sortBy = "status" -> Joined(<<patient.status>>)
    [] sortBy = "location" ->
         Joined(<<Word(patient, "city"), Word(patient, "state"),
                  Word(patient, "zipCode")>>)

\* The list does not step down anywhere, by the name key given and the other
\* keys as above
NonDecreasing(list, sortBy, NameKey(_)) ==
  \A k \in 1..(Len(list) - 1) :
    IF sortBy = "name"
    THEN ~StrLess(NameKey(list[k + 1]), NameKey(list[k]))
    ELSE ~ValueLess(OtherKey(list[k + 1], sortBy), OtherKey(list[k], sortBy),
                    sortBy)

\* Bob Ng and Amy Lee, fetched in this order, listed by name ascending on one
\* page
BobThenAmyByName ==
  /\ req.method = "GET"
  /\ Cardinality(DOMAIN store) = 2
  /\ getDocs(store)[1].firstName = "Bob" /\ getDocs(store)[1].lastName = "Ng"
  /\ getDocs(store)[2].firstName = "Amy" /\ getDocs(store)[2].lastName = "Lee"
  /\ req.query = Query("1", "2", "name", "asc", undefined)

\* Amy Lee, then Bob Ng
AmyThenBob ==
  /\ Listed
  /\ Len(res.patients) = 2
  /\ res.patients[1].firstName = "Amy" /\ res.patients[1].lastName = "Lee"
  /\ res.patients[2].firstName = "Bob" /\ res.patients[2].lastName = "Ng"

\* C8 as stated: for sortBy in {name, dob, status, location} and asc the
\* listing is non-decreasing by the derived key, the name key being the
\* lowercased "firstName middleName lastName" with an absent middleName
\* omitted, so that first and last name are joined by a single space.
C8_AscendingByKeyWithoutGap ==
  (Listed /\ Params(req.query).sortBy \in NamedSortFields
          /\ Params(req.query).sortOrder = "asc") =>
    NonDecreasing(WholeListing, Params(req.query).sortBy, NameKeyWithoutGap)

\* C8 amended: for sortBy in {name, dob, status, location} and asc the listing
\* is non-decreasing by the derived key, where the name key is the lowercased
\* firstName + " " + middleName + " " + lastName with an absent or empty
\* middleName as the empty string (two spaces between first and last name),
\* dob the time value of the ISO date, status the lowercased status, location
\* the lowercased "city state zipCode" (a missing part reads "undefined");
\* [Bob Ng, Amy Lee] listed by name asc gives [Amy Lee, Bob Ng].
C8_AscendingByKeyWithGap ==
  /\ (Listed /\ Params(req.query).sortBy \in NamedSortFields
             /\ Params(req.query).sortOrder = "asc") =>
       NonDecreasing(WholeListing, Params(req.query).sortBy, NameKeyWithGap)
  /\ BobThenAmyByName => AmyThenBob

\* The example of the claim has been served
C8_Witness == BobThenAmyByName /\ AmyThenBob

\* The page a request asks for: the integer its page parameter spells, the
\* default 1 when the parameter is absent or spells none; likewise the limit
Requested(query, name, default) ==
  IF Spelled(query, name).isNaN THEN default ELSE Spelled(query, name).value

\* C9: every successful List response has pagination data consistent with
\* the request and the filtered set: currentPage is the requested page, limit
\* the requested limit, totalPatients the size of the filtered set,
\* totalPages = ceil(totalPatients / limit), hasNextPage iff page <
\* totalPages, hasPreviousPage iff page > 1, and the page holds at most limit
\* records.
C9_PaginationDataIsConsistent ==
  Listed =>
    LET pg == res.pagination
        page == Requested(req.query, "page", 1)
        limit == Requested(req.query, "limit", 10)
    IN  /\ pg.currentPage = page
        /\ pg.limit = limit
        /\ pg.totalPatients = Len(FilteredSorted(store, req.query))
        /\ pg.totalPages = Ceil(pg.totalPatients, limit)
        /\ pg.hasNextPage <=> page < pg.totalPages
        /\ pg.hasPreviousPage <=> page > 1
        /\ Len(res.patients) <= limit

-----------------------------------------------------------------------------
(* Properties of POST /patients *)

\* A required field is missing or empty, or the status is not one of the four
Rejectable(body) ==
  \/ \E f \in {"firstName", "lastName", "dob", "status"} :
       f \notin DOMAIN body \/ body[f] = ""
  \/ body.status \notin {"Inquiry", "Onboarding", "Active", "Churned"}

\* The step is the handling of a Create request
CreateStep == req = NoRequest /\ req'.method = "POST"

-----------------------------------------------------------------------------
(* Properties of the store under all five routes *)

\* C11: in every store state reachable through Create, Update and Delete
\* requests, with valid and invalid bodies alike, every persisted record has
\* a status, and it is one of Inquiry, Onboarding, Active, Churned.
C11_PersistedStatusIsEnumerated ==
  \A id \in DOMAIN store :
    /\ "status" \in DOMAIN store[id]
    /\ store[id].status \in {"Inquiry", "Onboarding", "Active", "Churned"}

\* An Update has changed the status of a stored record, after an Update with
\* a status outside the enumeration was turned down
C11_Witness ==
  /\ req.method = "PUT"
  /\ res.status = 200
  /\ store[req.id].status = "Churned"
  /\ Cardinality(DOMAIN store) = 2
  /\ deleted # {}

\* The fields of a patient record
PatientFields ==
  {"firstName", "middleName", "lastName", "dob", "status", "address", "city",
   "state", "zipCode"}

\* The step is the handling of a Create request that is answered with 201
CreatedStep == CreateStep /\ res'.status = 201

\* The step is the handling of an Update or a Delete of the identifier
Touches(id) ==
  /\ req = NoRequest
  /\ req'.method \in {"PUT", "DELETE"}
  /\ req'.id = id

\* The answer to a Read is the record: every field the record has, with the
\* record's value, and the identifier
ReadGives(response, record, id) ==
  /\ response.status = 200
  /\ DOMAIN response.patient = DOMAIN record \cup {"id"}
  /\ response.patient.id = id
  /\ \A f \in PatientFields \cap DOMAIN record : response.patient[f] = record[f]

\* C12: after a successful Create of record R, a Read by the returned
\* identifier yields R in every field plus the identifier, and goes on doing
\* so over every step that is not an Update or a Delete of that identifier.
C12_ReadReturnsWhatWasCreated ==
  [][ /\ CreatedStep => ReadGives(ReadResponse(store', res'.id), req'.body, res'.id)
      /\ \A id \in DOMAIN store :
           ~Touches(id) => ReadResponse(store', id) = ReadResponse(store, id) ]_vars

\* Amy Lee, created as the form sends her, read back beside another record
C12_Witness ==
  /\ req.method = "GET"
  /\ "id" \in DOMAIN req
  /\ res.status = 200
  /\ res.patient = AmyLee @@ ("id" :> req.id)
  /\ Cardinality(DOMAIN store) = 2

\* The step is the handling of an Update request
UpdateStep == req = NoRequest /\ req'.method = "PUT"

\* C13: after a successful Update of identifier id with record R, a Read of
\* id returns a record in which every field, the address included, has the
\* value it has in R; a rejected or failed Update leaves the store as it was.
C13_UpdateWritesEveryField ==
  [][ UpdateStep =>
        IF res'.status = 200
        THEN LET read == ReadResponse(store', req'.id)
             IN  /\ read.status = 200
                 /\ \A f \in PatientFields \cap DOMAIN req'.body :
                      Get(read.patient, f) = req'.body[f]
        ELSE store' = store ]_vars

\* The exchange in progress is a Read of the identifier
ReadOf(id) == req.method = "GET" /\ "id" \in DOMAIN req /\ req.id = id

\* The exchange in progress is a listing
Listing == req.method = "GET" /\ "query" \in DOMAIN req

\* C14: once Delete of an identifier has succeeded, in every later state the
\* store has no record under it, no List response contains a record with it,
\* a Read of it answers 404, and no Update of it reports success.
C14_DeletedIdentifierStaysInvalid ==
  \A id \in deleted :
    /\ id \notin DOMAIN store
    /\ (Listing /\ res.status = 200)
         => \A k \in 1..Len(res.patients) : res.patients[k].id # id
    /\ ReadOf(id) => res.status = 404
    /\ (req.method = "PUT" /\ req.id = id) => res.status # 200

\* The edit form's Update of a deleted identifier, turned down while other
\* records are stored
C14_Witness ==
  /\ req.method = "PUT"
  /\ req.id \in deleted
  /\ req.body = BobMoved
  /\ res.status = 500
  /\ Cardinality(DOMAIN store) = 2

-----------------------------------------------------------------------------
(* Properties of the table controls *)

\* The other direction
Flipped(direction) == IF direction = "asc" THEN "desc" ELSE "asc"

\* C15: a sort click on field F flips sortOrder and keeps sortField when the
\* current sortField is F, and otherwise sets sortField to F and sortOrder to
\* asc; in both cases page becomes 1 and limit is unchanged.
C15_SortClickFlipsOrSelects ==
  [][ \A F \in {"name", "dob", "status", "location"} :
        handleSort(F) =>
          /\ IF sortField = F
             THEN sortField' = sortField /\ sortDirection' = Flipped(sortDirection)
             ELSE sortField' = F /\ sortDirection' = "asc"
          /\ currentPage' = 1
          /\ itemsPerPage' = itemsPerPage ]_vars

\* Pages of five sorted by dob, descending: the header was clicked twice
C15_Witness ==
  /\ sortField = "dob"
  /\ sortDirection = "desc"
  /\ itemsPerPage = 5
  /\ currentPage = 1
  /\ HasPagination

\* The number a select item stands for
SizeOf(V) == CHOOSE n \in {5, 10, 20, 50} : ToString(n) = V

\* C16: a page-size change to V sets limit to V and page to 1 and leaves
\* sortField and sortOrder unchanged, whatever the page was before.
C16_PageSizeChangeResetsPage ==
  [][ \A V \in {"5", "10", "20", "50"} :
        handleItemsPerPageChange(V) =>
          /\ itemsPerPage' = SizeOf(V)
          /\ currentPage' = 1
          /\ sortField' = sortField
          /\ sortDirection' = sortDirection ]_vars

\* Pages of twenty, the sort left as it was chosen before
C16_Witness ==
  /\ itemsPerPage = 20
  /\ currentPage = 1
  /\ sortField = "status"
  /\ sortDirection = "desc"
  /\ HasPagination

\* The pages the numbered controls show
PageWindow == {pageNumber(i) : i \in PageControls}

\* The step is a click on a page control
PageClick == ClickPrevious \/ ClickNext \/ \E i \in 0..4 : ClickPageNumber(i)

\* C17: page navigation changes page only to a target within
\* [1, totalPages] of the displayed pagination: a click on previous when
\* hasPreviousPage is false, or on next when hasNextPage is false, leaves the
\* state unchanged, and the numbered controls are min(5, totalPages) distinct
\* numbers within [1, totalPages].
C17_NavigationStaysWithinPages ==
  /\ [](ControlsShown =>
          /\ PageWindow \subseteq 1..pagination.totalPages
          /\ Cardinality(PageWindow) = Min(5, pagination.totalPages)
          /\ pagination.currentPage \in PageWindow)
  /\ [][ PageClick =>
           /\ currentPage' # currentPage => currentPage' \in 1..pagination.totalPages
           /\ <<itemsPerPage, sortField, sortDirection>>' =
                <<itemsPerPage, sortField, sortDirection>>
           /\ (ClickPrevious /\ ~pagination.hasPreviousPage) => UNCHANGED vars
           /\ (ClickNext /\ ~pagination.hasNextPage) => UNCHANGED vars ]_vars

\* Page 4 of 7 displayed: the window is 2..6, neither end of the range
C17_Witness ==
  /\ ControlsShown
  /\ pagination.totalPages = 7
  /\ pagination.currentPage = 4
  /\ PageWindow = 2..6

-----------------------------------------------------------------------------
(* Properties of the delete dialog *)

\* page, limit, sortField and sortOrder of the listing
ListingState == <<currentPage, itemsPerPage, sortField, sortDirection>>

\* The step starts a fetch of the listing with the current page, limit,
\* sortField and sortOrder
Refetched ==
  /\ listQuery'.isFetching
  /\ listQuery'.failureCount = 0
  /\ ListRequest' =
       SearchParams(currentPage, itemsPerPage, sortField, sortDirection)

\* C18: when the Delete request succeeds the listing is invalidated and
\* refetched with the current (page, limit, sortField, sortOrder); when it
\* fails the listing is not invalidated, a failure notification is shown and
\* no Delete is sent again; in both outcomes the pending-delete target and
\* the dialog are cleared and page, limit, sortField, sortOrder are unchanged.
C18_DeleteOutcomeIsHandled ==
  [][ \A fulfilled \in BOOLEAN :
        DeleteSettled(fulfilled) =>
          /\ IF fulfilled
             THEN /\ Refetched
                  /\ toast'.kind = "success"
             ELSE /\ listQuery' = listQuery
                  /\ toast'.kind = "error"
                  /\ toast'.message = "Failed to delete patient. Please try again."
                  /\ deleteCall' = null
          /\ patientToDelete' = null
          /\ showDeleteDialog' = FALSE
          /\ deletingPatientId' = NoId
          /\ ListingState' = ListingState ]_vars

\* A Delete has failed on page 2 of the listing sorted by name, descending:
\* the notification is up, the dialog is gone, the listing is as it was
C18_Witness ==
  /\ toast # null
  /\ toast.kind = "error"
  /\ ~showDeleteDialog
  /\ patientToDelete = null
  /\ deleteCall = null
  /\ currentPage = 2
  /\ sortDirection = "desc"
  /\ HasPagination
  /\ ~listQuery.isFetching

-----------------------------------------------------------------------------
(* Properties of the form *)

\* The text fields of a request body
TextFields ==
  {"firstName", "middleName", "lastName", "address", "city", "state",
   "zipCode"}

\* The step sends a Create or an Update request from the form
FormSends == formCall = null /\ formCall' # null

\* C19: every Create or Update request the form sends carries sanitized
\* values: no text field of the request body (firstName, middleName,
\* lastName, address, city, state, zipCode) has leading or trailing white
\* space, whatever the user typed.
C19_RequestBodiesAreTrimmed ==
  [][ FormSends =>
        \A f \in TextFields \cap DOMAIN formCall'.body :
          trim(Utf16(formCall'.body[f])) = Utf16(formCall'.body[f]) ]_vars

\* The step is the failure of the form's call, with the server's error text
\* or without a response
Rejected(error) == FormRejected(error) /\ "request" \in DOMAIN error

\* C20: on a successful response the active form (add or edit modal) is
\* closed and the listing is subsequently invalidated and refetched; on a
\* failed response or no response the form stays open, the listing is not
\* invalidated, and the error notification tells a rejection by the server
\* (its error text is shown) apart from no response received.
C20_SubmissionOutcomeIsHandled ==
  /\ [](formCall # null => ModalOpen)
  /\ [][ /\ FormFulfilled =>
              /\ ~ModalOpen'
              /\ timers' = timers + 1
              /\ toast'.kind = "success"
         /\ TimerFires => Refetched
         /\ \A error \in Rejections :
              Rejected(error) =>
                /\ ModalOpen'
                /\ <<showAddModal, editingPatient>>' = <<showAddModal, editingPatient>>
                /\ listQuery' = listQuery
                /\ timers' = timers
                /\ toast'.kind = "error"
                /\ IF "response" \in DOMAIN error
                   THEN toast'.message \in
                          {"Server error: Failed to create patient",
                           "Server error: Failed to update patient"}
                   ELSE toast'.message =
                          "No response from server. Please check if the backend is running." ]_vars
  /\ (timers > 0) ~> (timers = 0 /\ listQuery.isFetching)

\* The edit form is still open after the server has turned the Update down
C20_Witness ==
  /\ editingPatient # null
  /\ formCall = null
  /\ toast # null
  /\ toast.message = "Server error: Failed to update patient"
  /\ timers = 0

-----------------------------------------------------------------------------
(* Properties of the client's failed requests *)

\* The step is a failure of the List request the query has sent
ListFailed ==
  /\ listQuery.isFetching
  /\ listQuery'.failureCount = listQuery.failureCount + 1

\* C21: no operation is retried automatically: once a List or a Delete
\* request of the client has failed, no request is out for that attempt; the
\* query is not fetching any more and no Delete is awaited.
C21_FailureIsTerminal ==
  [][ /\ ListFailed => ~listQuery'.isFetching
      /\ DeleteSettled(FALSE) => deleteCall' = null /\ listQuery' = listQuery
    ]_vars

-----------------------------------------------------------------------------
(* Properties of the sort keys of GET /patients *)

\* The fetched collection after the search filter, in the order of the fetch
FilteredOnly(coll, query) == Filter(getDocs(coll), Params(query).search).patients

\* C24: a List request that omits sortBy is treated as sortBy = none: the
\* response keeps the filtered records in the relative order of the fetched
\* store collection.
C24_NoSortByKeepsFetchOrder ==
  (Listed /\ "sortBy" \notin DOMAIN req.query) =>
    WholeListing = FilteredOnly(store, req.query)

\* C25: every sort key is case-folded before comparison, the raw attribute of
\* the fallback (sortBy = firstName, the value an omitted sortBy takes)
\* included: under asc no record stands ahead of one whose case-folded key
\* is smaller, so "amy" never sorts after "Bob".
C25_EveryKeyIsCaseFolded ==
  (Listed /\ Params(req.query).sortOrder = "asc"
          /\ Params(req.query).sortBy # "dob") =>
    LET all == WholeListing
        sortBy == Params(req.query).sortBy
    IN  \A i, j \in 1..Len(all) :
          i < j => ~StrLess(toLowerCase(SortValue(all[j], sortBy)),
                            toLowerCase(SortValue(all[i], sortBy)))

-----------------------------------------------------------------------------
(* Properties of the required fields *)

\* The fields the backend's README lists as required
RequiredFields ==
  {"firstName", "lastName", "dob", "status", "city", "state", "zipCode"}

\* The exchange in progress is a Create or an Update whose body lacks the field
BodyLacks(f) == req.method \in {"POST", "PUT"} /\ Falsy(Get(req.body, f))

\* C27: firstName, lastName, dob, status, city, state and zipCode are
\* required: a Create or Update whose body lacks city, state or zipCode is
\* answered 400, and no persisted record lacks one of the seven fields.
C27_SevenFieldsAreRequired ==
  /\ (\E f \in {"city", "state", "zipCode"} : BodyLacks(f)) => res.status = 400
  /\ \A id \in DOMAIN store :
       \A f \in RequiredFields : ~Falsy(Get(store[id], f))

-----------------------------------------------------------------------------
(* Properties of the reading routes *)

\* The step is the handling of a List or a Read request
ReadingStep == req = NoRequest /\ req'.method = "GET"

\* C30: List and Read by identifier never change the store: after any List
\* (accepted or rejected) or Read the store holds the same records under the
\* same identifiers, and the response is determined by the store and the
\* request alone, so that the same List on an unchanged store is answered
\* the same.
C30_ReadingLeavesTheStore ==
  [][ ReadingStep =>
        /\ store' = store
        /\ deleted' = deleted
        /\ res' = IF "query" \in DOMAIN req'
                  THEN ListResponse(store, req'.query)
                  ELSE ReadResponse(store, req'.id) ]_vars

\* The second page of two records was asked for and turned down
C30_Witness ==
  /\ req.method = "GET"
  /\ "query" \in DOMAIN req
  /\ res.status = 400
  /\ Cardinality(DOMAIN store) = 2

-----------------------------------------------------------------------------
(* Properties of the responses over a store that may fail *)

\* The exchange in progress is a List
IsList == req.method = "GET" /\ "query" \in DOMAIN req

\* The exchange in progress is a Read by identifier
IsRead == req.method = "GET" /\ "id" \in DOMAIN req

\* The error message of the operation's 500 response
GenericError ==
  CASE req.method = "POST" -> "Failed to create patient"
    [] IsList -> "Failed to fetch patients"
    [] IsRead -> "Failed to fetch patient"
    [] req.method = "PUT" -> "Failed to update patient"
    [] req.method = "DELETE" -> "Failed to delete patient"

\* C26: every controller response falls in exactly one class: success is 200
\* (201 for Create), a validation failure is 400, a Read by an identifier
\* with no matching record is 404, and a store failure in any of Create,
\* List, Read, Update or Delete is 500 with the operation's fixed error
\* message, whatever made the store fail.
C26_ResponsesFallInOneClass ==
  req # NoRequest =>
    /\ res.status \in {200, 201, 400, 404, 500}
    /\ res.status = 500 => res.error = GenericError
    /\ CASE req.method = "POST" ->
              res.status = IF Rejectable(req.body) THEN 400
                           ELSE IF ~available THEN 500 ELSE 201
         [] req.method = "PUT" ->
              IF Rejectable(req.body) THEN res.status = 400
              ELSE IF ~available THEN res.status = 500
              ELSE res.status \in {200, 500}
         [] req.method = "DELETE" ->
              res.status = IF ~available THEN 500 ELSE 200
         [] IsList ->
              IF ~Accepted(req.query) THEN res.status = 400
              ELSE IF ~available THEN res.status = 500
              ELSE res.status \in {200, 400}
         [] IsRead ->
              res.status = IF ~available THEN 500
                           ELSE IF req.id \notin DOMAIN store THEN 404
                           ELSE 200

-----------------------------------------------------------------------------
(* Properties of listings side by side *)

\* The invocations other than c are where they were
OthersUntouched(c) == \A d \in Calls \ {c} : calls'[d] = calls[d]

\* C23: each List call computes its page and all its pagination data from
\* one single fetch of the collection: the fetch takes the whole collection
\* as it is at one instant, a write of another request between the fetch and
\* the response leaves what was fetched as it was, the response is the query
\* applied to what was fetched (the collection before or after the write,
\* never a mixture), and an invocation changes neither the store nor what
\* another invocation has fetched.
C23_ListAnswersFromOneFetch ==
  [][ /\ \A c \in Calls :
           getDocsServed(c) =>
             /\ calls'[c].snapshot = store
             /\ OthersUntouched(c)
      /\ \A c \in Calls :
           getAllPatientsResumes(c) =>
             /\ res' = ListResponse(calls[c].snapshot, calls[c].query)
             /\ OthersUntouched(c)
             /\ store' = store
      /\ store' # store => calls' = calls ]_vars

\* Two invocations hold different fetches of the collection: a Delete came
\* between the two fetches
C23_Witness ==
  /\ calls[1].at = "fetched"
  /\ calls[2].at = "fetched"
  /\ Cardinality(DOMAIN calls[1].snapshot) = 3
  /\ Cardinality(DOMAIN calls[2].snapshot) = 2
  /\ store = calls[2].snapshot

-----------------------------------------------------------------------------
\* The delete the page confirmed has succeeded
DeleteSucceeded == toast # null /\ toast.kind = "success"

\* The page shows the answer to the request of its state from the
\* collection as it is after the delete, without the deleted patient
ShowsListingAfterDelete ==
  /\ ~listQuery.isFetching
  /\ HasPagination
  /\ listQuery.data = ListResponse(store, ListRequest)
  /\ \A k \in 1..Len(patients) : patients[k].id \notin deleted

\* C28: once a delete confirmed in the page has succeeded, and the user does
\* nothing more, the page comes to show a listing fetched after the delete
\* that does not hold the deleted patient, whatever the current page, also
\* when the patient was the only one of the last page
C28_ListingFollowsTheDelete == DeleteSucceeded ~> ShowsListingAfterDelete

\* (the same, for a delete that leaves the current page in existence)
DeleteKeepsThePage ==
  (DeleteSucceeded /\ currentPage <= Ceil(Len(getDocs(store)), itemsPerPage))
    ~> ShowsListingAfterDelete

-----------------------------------------------------------------------------
\* `data` is the answer of the backend to the request of `key`, whatever the
\* collection held when it was answered
ProducedFor(data, key) ==
  \E total \in RaceTotals : data = ListResponse(Mixed(total), RequestOf(key))

\* C22: whatever the order of the user's actions and of the answers, the
\* listing on display is the answer to a request with the page, limit, sort
\* field and sort order of the current state; the answer to the request of a
\* key that was left goes to the query of that key and not on display
C22_DisplayedListingIsOfTheCurrentKey ==
  /\ HasPagination => ProducedFor(listQuery.data, queryKey)
  /\ \A key \in DOMAIN cache :
       /\ key # queryKey
       /\ cache[key].data.status = 200 => ProducedFor(cache[key].data, key)

\* The request of a key that was left has been answered with a listing, and
\* the page shows another listing, the one of its current key
C22_Witness ==
  /\ HasPagination
  /\ ~listQuery.isFetching
  /\ \E key \in DOMAIN cache :
       /\ ~cache[key].isFetching
       /\ cache[key].data.status = 200
       /\ cache[key].data # listQuery.data

====
